---- MODULE Spec2Model ----
(***************************************************************************)
(* The ledger of swift_alliance_streamlit.py (class SwiftAllianceBank) as  *)
(* a state machine.  Money is counted in cents: every amount the model     *)
(* feeds to the ledger has two fractional digits and far fewer than the    *)
(* 28 significant digits of Python's default decimal context, so Decimal   *)
(* addition, subtraction and comparison are exact on them and are the      *)
(* integer operations here.  The one inexact computation of the ledger,    *)
(* the daily interest (a Decimal division, a product and a quantize), is   *)
(* carried out digit by digit as the decimal module does it.  The snapshot  *)
(* file holds what _save_data writes, decimals as the character strings    *)
(* str() gives, and _load_data parses them back.  The MT103 codec works on *)
(* texts that are sequences of characters.                                 *)
(***************************************************************************)
EXTENDS Integers, Sequences, FiniteSets, TLC

VARIABLES
    customers,           \* self.customers: customer_id -> Customer
    accounts,            \* self.accounts: account_number -> Account
    transactions,        \* self.transactions: account_number -> list of Transaction
    loans,               \* self.loans: loan_id -> Loan
    last_interest_date,  \* self.last_interest_date
    data_file,           \* the snapshot file self.data_file names
    today,               \* datetime.date.today(), a day number
    accruals,            \* history: date -> accounts owed interest that the first
                         \* calculate_interest call of that date left uncredited
    last,                \* history: the last ledger call, its outcome and the store before it
    payment,             \* the payment record payment_from_transaction built
    mt_text,             \* the MT103 text at hand
    validation,          \* what validate_mt103_text returned for mt_text
    pain_xml,            \* the pain.001 document at hand
    pain_validation,     \* what validate_pain001_generated did with pain_xml
    HAS_XMLSCHEMA        \* HAS_XMLSCHEMA: whether import xmlschema succeeded

vars == <<customers, accounts, transactions, loans, last_interest_date, data_file,
          today, accruals, last, payment, mt_text, validation,
          pain_xml, pain_validation, HAS_XMLSCHEMA>>

\* the variables of the message codec, which the ledger never touches
codec == <<payment, mt_text, validation, pain_xml, pain_validation, HAS_XMLSCHEMA>>

\* ------------------------------------------------------------------ bounds
\* at most this many Transaction records in the whole store
MaxTxns == 3
\* the clock runs over days 0..MaxDay
MaxDay == 1

\* ------------------------------------------------------------------ inputs
\* the values random.randint lets _generate_id / generate_account_number return
CustIds == {"CUST1"}
AcctNums == {"ACC1", "ACC2"}
AccountTypes == {"SAVINGS", "CURRENT", "FIXED_DEPOSIT", "CORPORATE"}
\* initial_deposit of create_account, in cents (the code accepts any Decimal)
InitialDeposits == {-10000, 0, 118625}
\* amount of deposit / withdraw / transfer, in cents
Amounts == {-5000, 0, 5000}

\* the None of an absent account number (related_account, a call without one)
NoAccount == ""

\* a customer id register_customer never handed out
UnknownCustomer == "CUST0"
\* the values _generate_id("LOAN") returns
LoanIds == {"LOAN1"}
\* amount (cents), interest_rate and term_months of apply_for_loan
LoanAmounts == {100000, 1200000}
LoanRates == {[coef |-> 5, exp |-> -2], [coef |-> 6, exp |-> -2]}
LoanTerms == {0, 7, 12}
\* start_date / end_date of get_transaction_history: None or a day
None == -1

\* texts are sequences of characters
\* the arguments of payment_from_transaction: amounts (Decimals: coefficient
\* and exponent), names, accounts, remittance texts (none, or two lines) and
\* references (none given, or one)
PaymentAmounts == {[coef |-> 15005, exp |-> -1], [coef |-> 5, exp |-> -3], [coef |-> -5, exp |-> 0]}
Currencies == {<<"U", "S", "D">>}
OrderingAccounts == {<<"D", "E", "8", "9">>}
BeneficiaryNames == {<<"B", "O", "B">>}
BeneficiaryAccounts == {<<"F", "R", "7", "6">>}
Remittances == {<<>>, <<"A", "\n", "B">>}
References == {<<>>, <<"R", "E", "F", "1", "2", "3">>}
\* what str(uuid.uuid4()).upper()[:12] gives
Uuids == {<<"0", "A", "1", "B", "2", "C", "3", "D", "-", "4", "E", "5">>}

\* ------------------------------------------------------------------ decimal arithmetic
\* decimal.getcontext().prec, the default context the module computes under
DecimalPrec == 28
\* Decimal('365') of calculate_interest
DaysPerYear == 365

RECURSIVE Pow10(_)
Pow10(n) == IF n = 0 THEN 1 ELSE 10 * Pow10(n - 1)

Abs(x) == IF x < 0 THEN -x ELSE x

RECURSIVE NatDigits(_)
\* the decimal digits of a natural number, most significant first; 0 has none
NatDigits(n) == IF n = 0 THEN <<>> ELSE Append(NatDigits(n \div 10), n % 10)

RECURSIVE DigitsNat(_)
\* the natural number a (short) digit sequence spells
DigitsNat(ds) ==
    IF ds = <<>> THEN 0 ELSE 10 * DigitsNat(SubSeq(ds, 1, Len(ds) - 1)) + ds[Len(ds)]

RECURSIVE Increment(_)
\* coefficient + 1 on a digit sequence (carry may lengthen it)
Increment(ds) ==
    IF ds = <<>> THEN <<1>>
    ELSE IF ds[Len(ds)] < 9 THEN [ds EXCEPT ![Len(ds)] = @ + 1]
    ELSE Append(Increment(SubSeq(ds, 1, Len(ds) - 1)), 0)

AllZero(ds) == \A i \in 1..Len(ds) : ds[i] = 0

\* A decimal is [digits |-> coefficient digits, exp |-> exponent]: digits * 10^exp.
\* Round a coefficient to at most DecimalPrec digits, ROUND_HALF_EVEN (the
\* context's rounding, applied to the result of every arithmetic operation).
RoundToPrec(d) ==
    IF Len(d.digits) <= DecimalPrec THEN d
    ELSE LET keep == SubSeq(d.digits, 1, DecimalPrec)
             rest == SubSeq(d.digits, DecimalPrec + 1, Len(d.digits))
             tail == SubSeq(rest, 2, Len(rest))
             up   == \/ rest[1] > 5
                     \/ rest[1] = 5 /\ ~AllZero(tail)
                     \/ rest[1] = 5 /\ AllZero(tail) /\ keep[DecimalPrec] % 2 = 1
             r    == IF up THEN Increment(keep) ELSE keep
             e    == d.exp + Len(rest)
         IN  IF Len(r) > DecimalPrec
                THEN [digits |-> SubSeq(r, 1, DecimalPrec), exp |-> e + 1]
                ELSE [digits |-> r, exp |-> e]

RECURSIVE DivDigits(_, _, _)
\* the next k quotient digits of n / d, n < 10 * d, and the remainder left:
\* <<digits, remainder>>
DivDigits(n, d, k) ==
    IF k = 0 THEN <<(<<>>), n>>
    ELSE LET q == n \div d
             r == n % d
             nxt == DivDigits(IF k = 1 THEN r ELSE 10 * r, d, k - 1)
         IN  <<(<<q>>) \o nxt[1], nxt[2]>>

RECURSIVE ShiftsToReach(_, _)
\* how many times n must be multiplied by 10 to be at least d
ShiftsToReach(n, d) == IF n >= d THEN 0 ELSE 1 + ShiftsToReach(10 * n, d)

\* Decimal.__truediv__ of coef * 10^exp by the integer divisor, coef > 0: the
\* quotient to DecimalPrec significant digits, ROUND_HALF_EVEN; an exact
\* quotient loses its trailing zeros.
RECURSIVE StripZeros(_)
StripZeros(d) ==
    IF Len(d.digits) > 1 /\ d.digits[Len(d.digits)] = 0
       THEN StripZeros([digits |-> SubSeq(d.digits, 1, Len(d.digits) - 1), exp |-> d.exp + 1])
       ELSE d

DecimalDiv(coef, exp, divisor) ==
    LET s   == ShiftsToReach(coef, divisor)
        res == DivDigits(coef * Pow10(s), divisor, DecimalPrec)
        ds  == res[1]
        rem == res[2]
        up  == \/ 2 * rem > divisor
               \/ 2 * rem = divisor /\ ds[DecimalPrec] % 2 = 1
        r   == IF up THEN Increment(ds) ELSE ds
        e   == exp - s - (DecimalPrec - 1)
        q   == IF Len(r) > DecimalPrec
                  THEN [digits |-> SubSeq(r, 1, DecimalPrec), exp |-> e + 1]
                  ELSE [digits |-> r, exp |-> e]
    IN  IF rem = 0 THEN StripZeros(q) ELSE q

RECURSIVE MulCarry(_, _, _)
\* digits * m + carry, on a digit sequence and a natural number m
MulCarry(ds, m, carry) ==
    IF ds = <<>> THEN NatDigits(carry)
    ELSE LET v == ds[Len(ds)] * m + carry
         IN  Append(MulCarry(SubSeq(ds, 1, Len(ds) - 1), m, v \div 10), v % 10)

\* Decimal.__mul__ of the natural number m * 10^mexp and the decimal d
DecimalMul(m, mexp, d) ==
    RoundToPrec([digits |-> MulCarry(d.digits, m, 0), exp |-> d.exp + mexp])

\* Decimal.quantize(Decimal('0.01'), rounding=ROUND_HALF_UP) of a non-negative
\* decimal, as a number of cents
QuantizeCents(d) ==
    LET drop == (-2) - d.exp
        n    == Len(d.digits)
    IN  IF drop <= 0 THEN DigitsNat(d.digits) * Pow10(-drop)
        ELSE IF drop > n THEN 0
        ELSE DigitsNat(SubSeq(d.digits, 1, n - drop))
             + (IF d.digits[n - drop + 1] >= 5 THEN 1 ELSE 0)

RECURSIVE AddCarry(_, _, _)
\* the sum of two digit sequences and a carry
AddCarry(xs, ys, carry) ==
    IF xs = <<>> /\ ys = <<>> THEN (IF carry = 0 THEN <<>> ELSE <<carry>>)
    ELSE LET x == IF xs = <<>> THEN 0 ELSE xs[Len(xs)]
             y == IF ys = <<>> THEN 0 ELSE ys[Len(ys)]
             v == x + y + carry
         IN  Append(AddCarry(IF xs = <<>> THEN xs ELSE SubSeq(xs, 1, Len(xs) - 1),
                             IF ys = <<>> THEN ys ELSE SubSeq(ys, 1, Len(ys) - 1),
                             v \div 10),
                    v % 10)

\* Decimal.__add__ of two non-negative decimals: the exact sum at the smaller
\* exponent, rounded to the context's precision
DecimalAdd(a, b) ==
    LET e      == IF a.exp < b.exp THEN a.exp ELSE b.exp
        Pad(x) == x.digits \o [i \in 1..(x.exp - e) |-> 0]
    IN  RoundToPrec([digits |-> AddCarry(Pad(a), Pad(b), 0), exp |-> e])

RECURSIVE QuotientDigits(_, _, _, _, _)
\* long division of the digit sequence ds (zeros following it) by d, from
\* position i with remainder rem and the significant quotient digits acc so
\* far: stops at DecimalPrec significant digits, or past the end of ds once
\* the division is exact; <<digits, remainder, positions consumed>>
QuotientDigits(ds, i, rem, d, acc) ==
    IF Len(acc) = DecimalPrec \/ (i > Len(ds) /\ rem = 0) THEN <<acc, rem, i - 1>>
    ELSE LET cur == 10 * rem + (IF i <= Len(ds) THEN ds[i] ELSE 0)
             q   == cur \div d
         IN  QuotientDigits(ds, i + 1, cur % d, d,
                            IF acc = <<>> /\ q = 0 THEN acc ELSE Append(acc, q))

\* Decimal.__truediv__ of a non-negative decimal by the positive integer
\* divisor: the quotient to DecimalPrec significant digits, ROUND_HALF_EVEN
DecimalDivInt(x, divisor) ==
    LET res == QuotientDigits(x.digits, 1, 0, divisor, <<>>)
        ds  == res[1]
        rem == res[2]
        e   == x.exp - (res[3] - Len(x.digits))
        up  == \/ 2 * rem > divisor
               \/ 2 * rem = divisor /\ ds[Len(ds)] % 2 = 1
        r   == IF up THEN Increment(ds) ELSE ds
    IN  IF Len(r) > DecimalPrec
           THEN [digits |-> SubSeq(r, 1, DecimalPrec), exp |-> e + 1]
           ELSE [digits |-> r, exp |-> e]

\* ------------------------------------------------------------------ ledger helpers
\* create_account's table: interest rate (a Decimal literal: coefficient and
\* exponent) and minimum balance (cents) by account type
SavingsMinimum == 5000
CurrentMinimum == 100000
FixedDepositMinimum == 500000
OtherMinimum == 10000

RateOf(account_type) ==
    IF account_type = "SAVINGS" THEN [coef |-> 2, exp |-> -2]
    ELSE IF account_type = "CURRENT" THEN [coef |-> 1, exp |-> -2]
    ELSE IF account_type = "FIXED_DEPOSIT" THEN [coef |-> 5, exp |-> -2]
    ELSE [coef |-> 15, exp |-> -3]

MinimumOfSavingsForAll(account_type) == SavingsMinimum

MinimumOf(account_type) ==
    IF account_type = "SAVINGS" THEN SavingsMinimum
    ELSE IF account_type = "CURRENT" THEN CurrentMinimum
    ELSE IF account_type = "FIXED_DEPOSIT" THEN FixedDepositMinimum
    ELSE OtherMinimum

\* the interest rates create_account hands out
Rates == {RateOf(t) : t \in {"SAVINGS", "CURRENT", "FIXED_DEPOSIT", "CORPORATE", "LOAN"}}

\* daily_rate = acc.interest_rate / Decimal('365'), tabulated over Rates
DailyRate == [rate \in Rates |-> DecimalDiv(rate.coef, rate.exp, DaysPerYear)]

\* interest = (acc.balance * daily_rate).quantize(Decimal('0.01'), ROUND_HALF_UP),
\* in cents; ROUND_HALF_UP rounds the magnitude, whatever the sign
DailyInterest(balance, rate) ==
    IF balance = 0 THEN 0
    ELSE LET q == QuantizeCents(DecimalMul(Abs(balance), -2, DailyRate[rate]))
         IN  IF balance < 0 THEN -q ELSE q

\* the Transaction _record_transaction builds (the random ids, the reference
\* and the currency are left out; the timestamp is kept to its date)
Txn(account_number, transaction_type, amount, description, related_account) ==
    [account_number |-> account_number, transaction_type |-> transaction_type,
     amount |-> amount, timestamp |-> today, description |-> description,
     related_account |-> related_account]

\* _record_transaction on a log mapping: append the record to the account's
\* list, creating the list when the account has none
_record_transaction(txs, txn) ==
    IF txn.account_number \in DOMAIN txs
       THEN [txs EXCEPT ![txn.account_number] = Append(@, txn)]
       ELSE [a \in DOMAIN txs \cup {txn.account_number} |->
                IF a = txn.account_number THEN <<txn>> ELSE txs[a]]

RECURSIVE SumLens(_, _)
SumLens(txs, dom) ==
    IF dom = {} THEN 0
    ELSE LET a == CHOOSE x \in dom : TRUE
         IN  Len(txs[a]) + SumLens(txs, dom \ {a})

\* the number of Transaction records in the store
TxnCount == SumLens(transactions, DOMAIN transactions)

\* history: the withdrawal the previous call made, if it was a successful
\* withdraw (account, amount and the balance it started from)
NoWithdrawal == [account |-> NoAccount, amount |-> 0, balance |-> 0]

PrevWithdrawal ==
    IF last.op = "withdraw" /\ last.result = "ok"
       THEN [account |-> last.account, amount |-> last.amount,
             balance |-> last.pre_accounts[last.account].balance]
       ELSE NoWithdrawal

\* the record of a ledger call: its arguments, how it ended and what it
\* returned, and the store it started from, unless the call added a customer,
\* an account or a loan under a generated id
Adds(op, result) ==
    op \in {"register_customer", "create_account", "apply_for_loan"} /\ result = "ok"

Call(op, customer, account, to, atype, amount, result, ret) ==
    [op |-> op, customer |-> customer, account |-> account, to |-> to,
     atype |-> atype, amount |-> amount, result |-> result, ret |-> ret,
     day |-> today,
     pre_accounts |-> IF Adds(op, result) THEN <<>> ELSE accounts,
     pre_transactions |-> IF Adds(op, result) THEN <<>> ELSE transactions,
     pre_loans |-> IF Adds(op, result) THEN <<>> ELSE loans,
     pre_last_interest_date |-> last_interest_date, pre_accruals |-> accruals,
     prev_withdrawal |-> PrevWithdrawal]

\* ------------------------------------------------------------------ persistence
\* the decimal digits as characters
DigitChars == <<"0", "1", "2", "3", "4", "5", "6", "7", "8", "9">>

DigitChar(n) == DigitChars[n + 1]

IsDigitChar(c) == \E i \in 1..Len(DigitChars) : DigitChars[i] = c

CharDigit(c) == (CHOOSE i \in 1..Len(DigitChars) : DigitChars[i] = c) - 1

RECURSIVE NatChars(_)
\* the digits of a natural number as characters, "0" for zero
NatChars(n) ==
    IF n < 10 THEN <<DigitChar(n)>> ELSE Append(NatChars(n \div 10), DigitChar(n % 10))

RECURSIVE FracChars(_, _)
\* the k digits of n < 10^k as characters, zeros leading
FracChars(n, k) ==
    IF k = 0 THEN <<>> ELSE Append(FracChars(n \div 10, k - 1), DigitChar(n % 10))

\* str(Decimal) of coef * 10^exp for exp <= 0 and a value that is not tiny
\* (Decimal.__str__ without its scientific notation): the sign, the integer
\* digits, and after a point the -exp digits of the fraction
DecimalStr(coef, exp) ==
    LET unit == Pow10(-exp)
    IN  (IF coef < 0 THEN <<"-">> ELSE <<>>)
        \o NatChars(Abs(coef) \div unit)
        \o (IF exp = 0 THEN <<>> ELSE <<".">> \o FracChars(Abs(coef) % unit, -exp))

\* Decimal(str): an optional sign, digits with at most one point among them,
\* at least one digit; anything else raises InvalidOperation (ok is FALSE)
ParseDecimal(chars) ==
    LET signed == chars # <<>> /\ chars[1] \in {"-", "+"}
        body   == IF signed THEN SubSeq(chars, 2, Len(chars)) ELSE chars
        points == {i \in 1..Len(body) : body[i] = "."}
        point  == IF points = {} THEN Len(body) + 1 ELSE CHOOSE i \in points : TRUE
        digs   == SubSeq(body, 1, point - 1) \o SubSeq(body, point + 1, Len(body))
        valid  == /\ Cardinality(points) <= 1
                  /\ digs # <<>>
                  /\ \A i \in 1..Len(digs) : IsDigitChar(digs[i])
        mag    == DigitsNat([i \in 1..Len(digs) |-> CharDigit(digs[i])])
    IN  IF ~valid THEN [ok |-> FALSE, coef |-> 0, exp |-> 0]
        ELSE [ok |-> TRUE,
              coef |-> IF signed /\ chars[1] = "-" THEN -mag ELSE mag,
              exp |-> IF points = {} THEN 0 ELSE -(Len(body) - point)]

\* the value of a parsed decimal of at most two fractional digits, in cents
CentsOf(d) == d.coef * Pow10(d.exp + 2)

RECURSIVE KeysOf(_)
\* the keys of a dict, in the order its values() and items() run over them
KeysOf(dom) ==
    IF dom = {} THEN <<>>
    ELSE LET k == CHOOSE x \in dom : TRUE
         IN  <<k>> \o KeysOf(dom \ {k})

\* the snapshot file when there is none, and when it is not JSON
NoFile == [form |-> "absent"]
NotJson == [form |-> "not json"]

\* the dict _save_data dumps: every record as asdict gives it, its Decimal
\* fields replaced by their str()
SavedAccount(a) ==
    [a EXCEPT !.balance = DecimalStr(a.balance, -2),
              !.interest_rate = DecimalStr(a.interest_rate.coef, a.interest_rate.exp),
              !.minimum_balance = DecimalStr(a.minimum_balance, -2)]

SavedTransactionWholeUnits(t) == [t EXCEPT !.amount = DecimalStr(t.amount \div 100, 0)]

SavedTransaction(t) == [t EXCEPT !.amount = DecimalStr(t.amount, -2)]

SavedLoan(l) ==
    [l EXCEPT !.principal_amount = DecimalStr(l.principal_amount, -2),
              !.interest_rate = DecimalStr(l.interest_rate.coef, l.interest_rate.exp),
              !.monthly_payment = DecimalStr(l.monthly_payment, -2),
              !.remaining_balance = DecimalStr(l.remaining_balance, -2)]

\* what _save_data leaves in the file.  The file is kept as the dict `data`
\* with its Decimal fields still Decimals; FileText is the text json.dump
\* wrote from it, every Decimal replaced by its str(), which is what a
\* reader of the file finds.
_save_data ==
    LET cs == KeysOf(DOMAIN customers)
        as == KeysOf(DOMAIN accounts)
        ls == KeysOf(DOMAIN loans)
    IN  [form |-> "data",
         customers |-> [i \in 1..Len(cs) |-> customers[cs[i]]],
         accounts |-> [i \in 1..Len(as) |-> accounts[as[i]]],
         transactions |-> transactions,
         loans |-> [i \in 1..Len(ls) |-> loans[ls[i]]],
         last_interest_date |-> last_interest_date]

FileText(file) ==
    IF file.form = "text" THEN file
    ELSE [form |-> "text",
          customers |-> file.customers,
          accounts |-> [i \in 1..Len(file.accounts) |-> SavedAccount(file.accounts[i])],
          transactions |-> [a \in DOMAIN file.transactions |->
                              [i \in 1..Len(file.transactions[a]) |->
                                  SavedTransaction(file.transactions[a][i])]],
          loans |-> [i \in 1..Len(file.loans) |-> SavedLoan(file.loans[i])],
          last_interest_date |-> file.last_interest_date]

\* the records _load_data's loops build from the dicts of the file; each
\* raises (ok is FALSE) on a Decimal field that does not parse
LoadedAccount(d) ==
    LET b == ParseDecimal(d.balance)
        r == ParseDecimal(d.interest_rate)
        m == ParseDecimal(d.minimum_balance)
    IN  IF b.ok /\ r.ok /\ m.ok
           THEN [ok |-> TRUE,
                 rec |-> [d EXCEPT !.balance = CentsOf(b),
                                   !.interest_rate = [coef |-> r.coef, exp |-> r.exp],
                                   !.minimum_balance = CentsOf(m)]]
           ELSE [ok |-> FALSE, rec |-> d]

LoadedTransaction(d) ==
    LET m == ParseDecimal(d.amount)
    IN  IF m.ok THEN [ok |-> TRUE, rec |-> [d EXCEPT !.amount = CentsOf(m)]]
        ELSE [ok |-> FALSE, rec |-> d]

LoadedLoan(d) ==
    LET p == ParseDecimal(d.principal_amount)
        r == ParseDecimal(d.interest_rate)
        m == ParseDecimal(d.monthly_payment)
        b == ParseDecimal(d.remaining_balance)
    IN  IF p.ok /\ r.ok /\ m.ok /\ b.ok
           THEN [ok |-> TRUE,
                 rec |-> [d EXCEPT !.principal_amount = CentsOf(p),
                                   !.interest_rate = [coef |-> r.coef, exp |-> r.exp],
                                   !.monthly_payment = CentsOf(m),
                                   !.remaining_balance = CentsOf(b)]]
           ELSE [ok |-> FALSE, rec |-> d]

\* how many records at the head of a list load before one raises
GoodPrefix(loaded) ==
    LET bad == {i \in 1..Len(loaded) : ~loaded[i].ok}
    IN  IF bad = {} THEN Len(loaded)
        ELSE (CHOOSE i \in bad : \A j \in bad : i <= j) - 1

\* the dict a loop has filled when it stops after n records of the list
LoadedUnder(loaded, n, key) ==
    LET recs == [i \in 1..n |-> loaded[i].rec]
    IN  [k \in {recs[i][key] : i \in 1..n} |->
            recs[CHOOSE i \in 1..n : recs[i][key] = k /\ \A j \in 1..n : recs[j][key] = k => j <= i]]

\* the store the loops of _load_data have filled, from the records as they
\* load (each with ok and rec) and the number of records at the head of each
\* list that load before one raises.  The loops run in the order of the file
\* and write into the store as they go; an exception anywhere ends the load
\* where it stands, is logged and swallowed.
LoadedStore(day, lid, lc, la, keys, lt, ll, na, good, nl) ==
    LET empty   == [customers |-> <<>>, accounts |-> <<>>, transactions |-> <<>>,
                    loans |-> <<>>, last_interest_date |-> day]
        cust    == LoadedUnder(lc, Len(lc), "customer_id")
        accts   == LoadedUnder(la, na, "account_number")
        badkeys == {i \in 1..Len(keys) : good[i] < Len(lt[i])}
        nk      == IF badkeys = {} THEN Len(keys)
                   ELSE CHOOSE i \in badkeys : \A j \in badkeys : i <= j
        txs     == [a \in {keys[i] : i \in 1..nk} |->
                      LET i == CHOOSE j \in 1..nk : keys[j] = a
                      IN  [n \in 1..good[i] |-> lt[i][n].rec]]
        lns     == LoadedUnder(ll, nl, "loan_id")
    IN  IF na < Len(la)
           THEN [store |-> [empty EXCEPT !.customers = cust, !.accounts = accts],
                 logged |-> "exception"]
        ELSE IF badkeys # {}
           THEN [store |-> [empty EXCEPT !.customers = cust, !.accounts = accts,
                                         !.transactions = txs],
                 logged |-> "exception"]
        ELSE IF nl < Len(ll)
           THEN [store |-> [empty EXCEPT !.customers = cust, !.accounts = accts,
                                         !.transactions = txs, !.loans = lns],
                 logged |-> "exception"]
        ELSE [store |-> [customers |-> cust, accounts |-> accts, transactions |-> txs,
                         loans |-> lns, last_interest_date |-> lid],
              logged |-> "info: loaded"]

\* the records of a file as the loops load them
LoadedRecords(day, lid, lc, la, keys, lt, ll) ==
    LoadedStore(day, lid, lc, la, keys, lt, ll,
                GoodPrefix(la), [i \in 1..Len(keys) |-> GoodPrefix(lt[i])], GoodPrefix(ll))

\* the loops of _load_data over the text of a file, the account numbers of
\* its transaction lists in the order items() gives them
LoadedText(file, keys, day) ==
    LoadedRecords(day, file.last_interest_date,
                  [i \in 1..Len(file.customers) |-> [ok |-> TRUE, rec |-> file.customers[i]]],
                  [i \in 1..Len(file.accounts) |-> LoadedAccount(file.accounts[i])],
                  keys,
                  [i \in 1..Len(keys) |->
                      [n \in 1..Len(file.transactions[keys[i]]) |->
                          LoadedTransaction(file.transactions[keys[i]][n])]],
                  [i \in 1..Len(file.loans) |-> LoadedLoan(file.loans[i])])

\* _load_data as __init__ calls it on `day`: the store it leaves
_load_data(stored, day) ==
    IF stored = NoFile
       THEN [store |-> [customers |-> <<>>, accounts |-> <<>>, transactions |-> <<>>,
                        loans |-> <<>>, last_interest_date |-> day],
             logged |-> "info: starting fresh"]
    ELSE IF stored = NotJson
       THEN [store |-> [customers |-> <<>>, accounts |-> <<>>, transactions |-> <<>>,
                        loans |-> <<>>, last_interest_date |-> day],
             logged |-> "exception"]
    ELSE LoadedText(FileText(stored), KeysOf(DOMAIN stored.transactions), day)

\* ------------------------------------------------------------------ message codec
\* format_amount(amount): the amount quantized to 0.01, ROUND_HALF_UP on the
\* magnitude, in 'f' notation: sign, integer digits, point, two digits
format_amount(amount) ==
    LET cents == QuantizeCents([digits |-> NatDigits(Abs(amount.coef)), exp |-> amount.exp])
    IN  (IF amount.coef < 0 THEN <<"-">> ELSE <<>>)
        \o NatChars(cents \div 100) \o <<".">> \o FracChars(cents % 100, 2)

\* datetime.date.fromisoformat on YYYY-MM-DD, with the days the calendar
\* gives the month: ok is FALSE where it raises
fromisoformat(chars) ==
    LET shaped == /\ Len(chars) = 10
                  /\ chars[5] = "-" /\ chars[8] = "-"
                  /\ \A i \in {1, 2, 3, 4, 6, 7, 9, 10} : IsDigitChar(chars[i])
        Num(i, j) == DigitsNat([k \in 1..(j - i + 1) |-> CharDigit(chars[i + k - 1])])
        y == Num(1, 4)
        m == Num(6, 7)
        d == Num(9, 10)
        DaysInMonth ==
            IF m = 2 THEN (IF (y % 4 = 0 /\ y % 100 # 0) \/ y % 400 = 0 THEN 29 ELSE 28)
            ELSE IF m \in {4, 6, 9, 11} THEN 30 ELSE 31
    IN  IF shaped /\ y >= 1 /\ m \in 1..12 /\ d \in 1..DaysInMonth
           THEN [ok |-> TRUE, y |-> y, m |-> m, d |-> d]
           ELSE [ok |-> FALSE, y |-> 0, m |-> 0, d |-> 0]

\* the date of the clock's day n, day 0 being 2024-03-01
DateOfDay(n) == [ok |-> TRUE, y |-> 2024, m |-> 3, d |-> 1 + n]

\* date.isoformat() and date.strftime("%y%m%d")
isoformat(date) ==
    FracChars(date.y, 4) \o <<"-">> \o FracChars(date.m, 2) \o <<"-">> \o FracChars(date.d, 2)

\* payment_from_transaction: the payment record, the defaults filled in
NoPayment == [reference |-> <<>>]

payment_from_transaction(account_number, account_name, beneficiary_account, beneficiary_name, amount, currency, value_date, remittance_info, beneficiary_bic, reference, uuid) ==
    [ordering_account |-> account_number,
     ordering_name |-> account_name,
     beneficiary_account |-> beneficiary_account,
     beneficiary_name |-> beneficiary_name,
     amount |-> amount,
     currency |-> currency,
     value_date |-> IF value_date # <<>> THEN value_date ELSE isoformat(DateOfDay(today)),
     remittance_info |-> remittance_info,
     beneficiary_bic |-> beneficiary_bic,
     reference |-> IF reference # <<>> THEN reference ELSE uuid]

\* str.replace("\n", " ")
ReplaceNewlines(chars) == [i \in 1..Len(chars) |-> IF chars[i] = "\n" THEN " " ELSE chars[i]]

RECURSIVE JoinLines(_)
\* "\n".join(lines)
JoinLines(lines) ==
    IF Len(lines) = 0 THEN <<>>
    ELSE IF Len(lines) = 1 THEN lines[1]
    ELSE lines[1] \o <<"\n">> \o JoinLines(Tail(lines))

Block1 == <<"{", "1", ":", "F", "0", "1", "S", "W", "I", "F", "T", "S", "I", "M", "U", "L", "A", "T", "O", "R", "X", "X", "X", "X", "0", "0", "0", "0", "0", "0", "0", "0", "0", "0", "}">>
Block2 == <<"{", "2", ":", "O", "1", "0", "3", "1", "2", "0", "0", "S", "W", "I", "F", "T", "S", "I", "M", "U", "L", "A", "T", "O", "R", "X", "X", "X", "X", "0", "0", "0", "0", "0", "0", "0", "0", "0", "0", "}">>
Block4 == <<"{", "4", ":">>
Tag20 == <<":", "2", "0", ":">>
Tag23B == <<":", "2", "3", "B", ":">>
Tag32A == <<":", "3", "2", "A", ":">>
Tag50K == <<":", "5", "0", "K", ":">>
Tag59 == <<":", "5", "9", ":">>
Tag70 == <<":", "7", "0", ":">>
Tag71A == <<":", "7", "1", "A", ":">>
BlockEnd == <<"-", "}">>

\* the :70: line generate_mt103 appends
RemittanceLine(remittance) == <<Tag70 \o ReplaceNewlines(remittance)>>

\* generate_mt103(payment) on the clock's day
generate_mt103(p) ==
    LET parsed == fromisoformat(p.value_date)
        date   == IF parsed.ok THEN parsed ELSE DateOfDay(today)
        vd     == FracChars(date.y % 100, 2) \o FracChars(date.m, 2) \o FracChars(date.d, 2)
    IN  JoinLines(
            <<Block1, Block2, Block4,
              Tag20 \o p.reference,
              Tag23B \o <<"C", "R", "E", "D">>,
              Tag32A \o vd \o p.currency \o format_amount(p.amount),
              Tag50K \o p.ordering_name \o <<" ", "/">> \o p.ordering_account,
              Tag59 \o p.beneficiary_name \o <<" ", "/">> \o p.beneficiary_account>>
            \o (IF p.remittance_info # <<>> THEN RemittanceLine(p.remittance_info) ELSE <<>>)
            \o <<Tag71A \o <<"S", "H", "A">>, BlockEnd>>)

\* _MT103_REQUIRED_TAGS
_MT103_REQUIRED_TAGS == <<Tag20, Tag32A, Tag50K, Tag59, Tag71A>>

\* the characters of [A-Z]
UpperLetters == {"A", "B", "C", "D", "E", "F", "G", "H", "I", "J", "K", "L", "M", "N", "O", "P", "Q", "R", "S", "T", "U", "V", "W", "X", "Y", "Z"}

\* the least element of a non-empty set of integers
Least(S) == CHOOSE i \in S : \A j \in S : i <= j

\* _find_tag(text, tag): re.search of the tag followed by (.*?)(?=\n:|$) under
\* DOTALL: the first occurrence of the tag, and as group 1 the characters
\* after it up to the first newline that a colon follows, or to the end of
\* the text (or to a newline that ends the text)
_find_tag(text, tag) ==
    LET starts == {i \in 1..(Len(text) - Len(tag) + 1) :
                      \A k \in 1..Len(tag) : text[i + k - 1] = tag[k]}
    IN  IF starts = {} THEN [found |-> FALSE, group |-> <<>>]
        ELSE LET from == Least(starts) + Len(tag)
                 ends == {e \in from..Len(text) :
                             /\ text[e] = "\n"
                             /\ (e = Len(text) \/ text[e + 1] = ":")}
                 end  == IF ends = {} THEN Len(text) + 1 ELSE Least(ends)
             IN  [found |-> TRUE, group |-> SubSeq(text, from, end - 1)]

\* str.strip(), of the white space that occurs
strip(chars) ==
    LET kept == {i \in 1..Len(chars) : chars[i] \notin {" ", "\n", "\t", "\r"}}
    IN  IF kept = {} THEN <<>>
        ELSE SubSeq(chars, Least(kept), CHOOSE i \in kept : \A j \in kept : j <= i)

\* re.match(r"^(\d{6})([A-Z]{3})(\d+(?:\.\d{1,2})?)$", content) on a stripped
\* content
Match32A(content) ==
    LET n      == Len(content)
        points == {i \in 10..n : content[i] = "."}
        whole  == IF points = {} THEN n ELSE Least(points) - 1
    IN  /\ n >= 10
        /\ \A i \in 1..6 : IsDigitChar(content[i])
        /\ \A i \in 7..9 : content[i] \in UpperLetters
        /\ whole >= 10
        /\ \A i \in 10..whole : IsDigitChar(content[i])
        /\ points # {} => /\ n - whole - 1 \in {1, 2}
                          /\ \A i \in (whole + 2)..n : IsDigitChar(content[i])

RECURSIVE JoinIssues(_)
\* the lists of a list of lists, one after the other
JoinIssues(lists) == IF Len(lists) = 0 THEN <<>> ELSE lists[1] \o JoinIssues(Tail(lists))

\* the tags whose content must not be empty
EmptyChecked == <<Tag50K, Tag59>>

\* validate_mt103_text(mt_text): (len(issues) == 0, issues), the issues in the
\* order the three loops append them
validate_mt103_text(text) ==
    LET Missing(tag) == IF _find_tag(text, tag).found THEN <<>> ELSE <<(<<"missing", tag>>)>>
        m            == _find_tag(text, Tag32A)
        format       == IF m.found /\ ~Match32A(strip(m.group))
                           THEN <<(<<"format", strip(m.group)>>)>> ELSE <<>>
        Empty(tag)   == LET mm == _find_tag(text, tag)
                        IN  IF mm.found /\ strip(mm.group) = <<>>
                               THEN <<(<<"empty", tag>>)>> ELSE <<>>
        required     == [i \in 1..Len(_MT103_REQUIRED_TAGS) |-> Missing(_MT103_REQUIRED_TAGS[i])]
        empties      == [i \in 1..Len(EmptyChecked) |-> Empty(EmptyChecked[i])]
        issues       == JoinIssues(required) \o format \o JoinIssues(empties)
    IN  [is_valid |-> Len(issues) = 0, issues |-> issues]

\* the texts validate_mt103_text is given besides the generated ones: block
\* markers around a message in which each required field is absent, well
\* formed, or (:32A:, :50K:, :59:) malformed or empty
GivenTexts ==
    LET Given20  == {<<>>, <<Tag20 \o <<"R", "E", "F", "1", "2", "3">>>>}
        Given32A == {<<>>, <<Tag32A \o <<"2", "4", "0", "3", "1", "5", "U", "S", "D", "1", "5", "0", "0", ".", "5", "0">>>>, <<Tag32A \o <<"2", "4", "0", "3", "1", "5", "U", "S", "D", "1", "x", ".", "5", "0">>>>}
        Given50K == {<<>>, <<Tag50K \o <<"A", "C", "M", "E", " ", "/", "D", "E", "8", "9">>>>, <<Tag50K>>}
        Given59  == {<<>>, <<Tag59 \o <<"B", "O", "B", " ", "/", "F", "R", "7", "6">>>>, <<Tag59 \o <<" ", " ">>>>}
        Given71A == {<<>>, <<Tag71A \o <<"S", "H", "A">>>>}
    IN  {JoinLines(<<Block1, Block2, Block4>> \o l20 \o l32 \o l50 \o l59 \o l71 \o <<BlockEnd>>) :
            l20 \in Given20, l32 \in Given32A, l50 \in Given50K, l59 \in Given59, l71 \in Given71A}

\* validate_mt103_text on each of them
GivenValidation == [text \in GivenTexts |-> validate_mt103_text(text)]

\* what the codec has not produced yet
NoText == [origin |-> "none", text |-> <<>>]
NoValidation == [is_valid |-> FALSE, issues |-> <<>>, done |-> FALSE, origin |-> "none", text |-> <<>>]

\* ------------------------------------------------------------------ pain.001 codec
\* an XML element is its tag, its attributes, its text and its children.  In
\* a document the texts and attribute values are character data as written;
\* in a tree (ElementTree) they are the characters meant.
\* ET.SubElement(parent, tag).text = text
Leaf(tag, text) == [tag |-> tag, attrs |-> <<>>, text |-> text, children |-> <<>>]

\* ET.SubElement(parent, tag) with children
Node(tag, children) == [tag |-> tag, attrs |-> <<>>, text |-> <<>>, children |-> children]

\* the namespace of pain.001.001.03
NS == <<"u", "r", "n", ":", "i", "s", "o", ":", "s", "t", "d", ":", "i", "s", "o", ":", "2", "0", "0", "2", "2", ":", "t", "e", "c", "h", ":", "x", "s", "d", ":", "p", "a", "i", "n", ".", "0", "0", "1", ".", "0", "0", "1", ".", "0", "3">>

\* character data: what the writer puts for the characters &, < and >, which
\* are the entity references a parser reads as them
Escapes ==
    [amp |-> [char |-> "&", written |-> <<"&", "a", "m", "p", ";">>],
     lt  |-> [char |-> "<", written |-> <<"&", "l", "t", ";">>],
     gt  |-> [char |-> ">", written |-> <<"&", "g", "t", ";">>]]

\* the character data written for a text: the text itself where none of its
\* characters is written as an entity reference
EscapeText(chars) ==
    LET Written(c) ==
            IF \E e \in DOMAIN Escapes : Escapes[e].char = c
               THEN Escapes[CHOOSE e \in DOMAIN Escapes : Escapes[e].char = c].written
               ELSE <<c>>
        \* how many characters are written for the characters before the i-th
        Before(i) ==
            Cardinality(UNION {{<<j, k>> : k \in 1..Len(Written(chars[j]))} : j \in 1..(i - 1)})
    IN  IF \A i \in 1..Len(chars) : Written(chars[i]) = <<chars[i]>> THEN chars
        ELSE [n \in 1..Before(Len(chars) + 1) |->
                 LET j == CHOOSE j \in 1..Len(chars) : Before(j) < n /\ n <= Before(j + 1)
                 IN  Written(chars[j])[n - Before(j)]]

\* the text a parser reads from character data; ok is FALSE where it meets
\* a < or an & that starts no entity reference
ParseText(chars) ==
    LET EntityAt(i) ==
            {e \in DOMAIN Escapes :
                /\ Len(chars) >= i + Len(Escapes[e].written) - 1
                /\ SubSeq(chars, i, i + Len(Escapes[e].written) - 1) = Escapes[e].written}
        refs    == {i \in 1..Len(chars) : chars[i] = "&"}
        ok      == \A i \in 1..Len(chars) :
                       /\ chars[i] # "<"
                       /\ i \in refs => EntityAt(i) # {}
        ref(i)  == Escapes[CHOOSE e \in EntityAt(i) : TRUE]
        read    == {k \in 1..Len(chars) :
                       \A i \in refs : ~(i < k /\ k < i + Len(ref(i).written))}
        kth(n)  == CHOOSE k \in read : Cardinality({h \in read : h < k}) = n - 1
    IN  IF ~ok THEN [ok |-> FALSE, text |-> <<>>]
        ELSE IF refs = {} THEN [ok |-> TRUE, text |-> chars]
        ELSE [ok |-> TRUE,
              text |-> [n \in 1..Cardinality(read) |->
                           IF kth(n) \in refs THEN ref(kth(n)).char ELSE chars[kth(n)]]]

RECURSIVE tostring(_)
\* ET.tostring and minidom's toprettyxml: the document of a tree, every text
\* and attribute value written as character data (the white space the pretty
\* printer puts between elements is no part of any text)
tostring(e) ==
    [tag |-> e.tag,
     attrs |-> [a \in DOMAIN e.attrs |-> EscapeText(e.attrs[a])],
     text |-> EscapeText(e.text),
     children |-> [i \in 1..Len(e.children) |-> tostring(e.children[i])]]

RECURSIVE WellFormed(_)
\* a document a parser reads to its end
WellFormed(d) ==
    /\ ParseText(d.text).ok
    /\ \A a \in DOMAIN d.attrs : ParseText(d.attrs[a]).ok
    /\ \A i \in 1..Len(d.children) : WellFormed(d.children[i])

RECURSIVE fromstring(_)
\* ET.fromstring on a well-formed document: the tree it reads
fromstring(d) ==
    [tag |-> d.tag,
     attrs |-> [a \in DOMAIN d.attrs |-> ParseText(d.attrs[a]).text],
     text |-> ParseText(d.text).text,
     children |-> [i \in 1..Len(d.children) |-> fromstring(d.children[i])]]

\* generate_pain001(payment) on the clock's day, at midnight: the document of
\* the element tree it builds, utcnow() written with isoformat() to the second
\* and 'Z' and with strftime("%Y%m%d%H%M%S")
generate_pain001(p) ==
    LET now      == DateOfDay(today)
        CreDtTm  == isoformat(now) \o <<"T", "0", "0", ":", "0", "0", ":", "0", "0", "Z">>
        PmtInfId == <<"P", "M", "T", "-">> \o FracChars(now.y, 4) \o FracChars(now.m, 2)
                    \o FracChars(now.d, 2) \o <<"0", "0", "0", "0", "0", "0">>
        InstdAmt == [Leaf("InstdAmt", format_amount(p.amount)) EXCEPT
                        !.attrs = [Ccy |-> p.currency]]
        CdtTrfTxInf ==
            Node("CdtTrfTxInf",
                <<Node("PmtId", <<Leaf("EndToEndId", p.reference)>>),
                  Node("Amt", <<InstdAmt>>)>>
                \o (IF p.beneficiary_bic # <<>>
                       THEN <<Node("CdtrAgt",
                                  <<Node("FinInstnId", <<Leaf("BIC", p.beneficiary_bic)>>)>>)>>
                       ELSE <<>>)
                \o <<Node("Cdtr", <<Leaf("Nm", p.beneficiary_name)>>),
                     Node("CdtrAcct", <<Node("Id", <<Leaf("IBAN", p.beneficiary_account)>>)>>),
                     Node("Dbtr", <<Leaf("Nm", p.ordering_name)>>),
                     Node("DbtrAcct", <<Node("Id", <<Leaf("IBAN", p.ordering_account)>>)>>)>>
                \o (IF p.remittance_info # <<>>
                       THEN <<Node("RmtInf", <<Leaf("Ustrd", p.remittance_info)>>)>>
                       ELSE <<>>))
        CstmrCdtTrfInitn ==
            [Node("CstmrCdtTrfInitn",
                 <<Node("GrpHdr",
                       <<Leaf("MsgId", p.reference),
                         Leaf("CreDtTm", CreDtTm),
                         Leaf("NbOfTxs", <<"1">>),
                         Leaf("CtrlSum", format_amount(p.amount))>>),
                   Node("PmtInf",
                       <<Leaf("PmtInfId", PmtInfId),
                         Leaf("PmtMtd", <<"T", "R", "F">>),
                         Leaf("NbOfTxs", <<"1">>),
                         Leaf("CtrlSum", format_amount(p.amount)),
                         CdtTrfTxInf>>)>>)
             EXCEPT !.attrs = [xmlns |-> NS]]
    IN  tostring(CstmrCdtTrfInitn)

\* the bundled minimal XSD.  A particle of a sequence is an element, how
\* often it may occur, and the type of its content
unbounded == -1

Particle(name, min, max, type) == [name |-> name, min |-> min, max |-> max, type |-> type]

\* the schema: its target namespace, its root element, its complex types
\* (sequences of particles) and its simple types (a base, and for InstdAmt
\* the attribute its simple content requires)
MinimalXsd ==
    [targetNamespace |-> NS,
     root |-> Particle("CstmrCdtTrfInitn", 1, 1, "CstmrCdtTrfInitn"),
     complex |->
        [CstmrCdtTrfInitn |-> <<Particle("GrpHdr", 0, 1, "GrpHdr"),
                                Particle("PmtInf", 1, unbounded, "PmtInf")>>,
         GrpHdr |-> <<Particle("MsgId", 1, 1, "string"),
                      Particle("CreDtTm", 1, 1, "dateTime"),
                      Particle("NbOfTxs", 1, 1, "string"),
                      Particle("CtrlSum", 1, 1, "decimal")>>,
         PmtInf |-> <<Particle("PmtInfId", 1, 1, "string"),
                      Particle("PmtMtd", 1, 1, "string"),
                      Particle("NbOfTxs", 1, 1, "string"),
                      Particle("CtrlSum", 1, 1, "decimal"),
                      Particle("CdtTrfTxInf", 1, unbounded, "CdtTrfTxInf")>>,
         CdtTrfTxInf |-> <<Particle("PmtId", 1, 1, "PmtId"),
                           Particle("Amt", 1, 1, "Amt"),
                           Particle("Cdtr", 1, 1, "Party"),
                           Particle("CdtrAcct", 1, 1, "Account"),
                           Particle("Dbtr", 1, 1, "Party"),
                           Particle("DbtrAcct", 1, 1, "Account"),
                           Particle("RmtInf", 0, 1, "RmtInf")>>,
         PmtId |-> <<Particle("EndToEndId", 1, 1, "string")>>,
         Amt |-> <<Particle("InstdAmt", 1, 1, "InstdAmt")>>,
         Party |-> <<Particle("Nm", 1, 1, "string")>>,
         Account |-> <<Particle("Id", 1, 1, "AccountId")>>,
         AccountId |-> <<Particle("IBAN", 1, 1, "string")>>,
         RmtInf |-> <<Particle("Ustrd", 0, 1, "string")>>],
     simple |->
        [string |-> [base |-> "string", required |-> {}],
         decimal |-> [base |-> "decimal", required |-> {}],
         dateTime |-> [base |-> "dateTime", required |-> {}],
         InstdAmt |-> [base |-> "decimal", required |-> {"Ccy"}]]]

\* the lexical spaces of the simple types.  xsd:decimal: a sign at most,
\* digits, a point at most, one digit at least.  xsd:dateTime, as far as the
\* codec's timestamps go: a date of the calendar, T, a time to the second,
\* and Z or nothing.  xsd:string: any text
IsOfBase(base, chars) ==
    LET c      == strip(chars)
        signed == Len(c) > 0 /\ c[1] \in {"+", "-"}
        body   == IF signed THEN Tail(c) ELSE c
        points == {i \in 1..Len(body) : body[i] = "."}
    IN  IF base = "decimal"
           THEN /\ Cardinality(points) <= 1
                /\ \A i \in (1..Len(body)) \ points : IsDigitChar(body[i])
                /\ Len(body) > Cardinality(points)
        ELSE IF base = "dateTime"
           THEN /\ Len(c) \in {19, 20}
                /\ fromisoformat(SubSeq(c, 1, 10)).ok
                /\ c[11] = "T" /\ c[14] = ":" /\ c[17] = ":"
                /\ \A i \in {12, 13, 15, 16, 18, 19} : IsDigitChar(c[i])
                /\ DigitsNat(<<CharDigit(c[12]), CharDigit(c[13])>>) < 24
                /\ CharDigit(c[15]) < 6 /\ CharDigit(c[18]) < 6
                /\ Len(c) = 20 => c[20] = "Z"
        ELSE TRUE

RECURSIVE ElementErrors(_, _, _), SequenceErrors(_, _, _, _, _, _)
\* the errors schema.iter_errors reports for an element of a type: for a
\* simple type those of its text and attributes, for a sequence those of its
\* children
ElementErrors(e, type, xsd) ==
    IF type \in DOMAIN xsd.simple
       THEN (IF e.children # <<>> THEN <<(<<"children not allowed", e.tag>>)>> ELSE <<>>)
            \o (IF ~IsOfBase(xsd.simple[type].base, e.text)
                   THEN <<(<<"invalid value", e.tag>>)>> ELSE <<>>)
            \o (IF xsd.simple[type].required \ DOMAIN e.attrs # {}
                   THEN <<(<<"missing attribute", e.tag>>)>> ELSE <<>>)
            \o (IF DOMAIN e.attrs \ xsd.simple[type].required # {}
                   THEN <<(<<"attribute not allowed", e.tag>>)>> ELSE <<>>)
       ELSE (IF strip(e.text) # <<>> THEN <<(<<"text not allowed", e.tag>>)>> ELSE <<>>)
            \o (IF DOMAIN e.attrs # {}
                   THEN <<(<<"attribute not allowed", e.tag>>)>> ELSE <<>>)
            \o SequenceErrors(e, 1, xsd.complex[type], 1, 0, xsd)

\* the children of e from the i-th on against the particles from the j-th
\* on, n children having matched the j-th: a child that is not the element
\* due is reported and ends the matching of this sequence
SequenceErrors(e, i, particles, j, n, xsd) ==
    IF j > Len(particles)
       THEN IF i > Len(e.children) THEN <<>>
            ELSE <<(<<"unexpected child", e.children[i].tag>>)>>
    ELSE IF /\ i <= Len(e.children)
            /\ e.children[i].tag = particles[j].name
            /\ (particles[j].max = unbounded \/ n < particles[j].max)
       THEN ElementErrors(e.children[i], particles[j].type, xsd)
            \o SequenceErrors(e, i + 1, particles, j, n + 1, xsd)
    ELSE IF n >= particles[j].min
       THEN SequenceErrors(e, i, particles, j + 1, 0, xsd)
    ELSE IF i > Len(e.children)
       THEN <<(<<"missing child", particles[j].name>>)>>
    ELSE <<(<<"unexpected child", e.children[i].tag>>)>>

\* the bundled schema's path, and the files at the schema paths: the bundled
\* schema, and an upload that xmlschema fails to load
MINIMAL_XSD_PATH == "assets/schemas/pain.001.minimal.xsd"

SchemaFiles == [path \in {MINIMAL_XSD_PATH, "upload.xsd"} |->
                   IF path = MINIMAL_XSD_PATH THEN MinimalXsd ELSE [targetNamespace |-> <<>>]]

\* validate_pain001_generated(xml_string, schema_path), the path "" being
\* none: the exception it raises, or the (is_valid, errors) it returns, none
\* telling that errors is None.  A tree is valid whose root is the element
\* the schema declares, in its target namespace, and whose content is valid
validate_pain001_generated(xml_string, schema_path) ==
    LET Returned(is_valid, errors, none) ==
            [raised |-> "", is_valid |-> is_valid, errors |-> errors, none |-> none]
        xsd    == SchemaFiles[schema_path]
        tree   == fromstring(xml_string)
        root   == [tree EXCEPT !.attrs = <<>>]
        errors == IF \/ tree.tag # xsd.root.name
                     \/ "xmlns" \notin DOMAIN tree.attrs
                     \/ tree.attrs["xmlns"] # xsd.targetNamespace
                     THEN <<(<<"no declaration", tree.tag>>)>>
                  ELSE ElementErrors(root, xsd.root.type, xsd)
    IN  IF ~WellFormed(xml_string)
           THEN Returned(FALSE, <<(<<"XML not well-formed">>)>>, FALSE)
        ELSE IF ~HAS_XMLSCHEMA
           THEN Returned(FALSE, <<(<<"xmlschema not installed">>)>>, FALSE)
        ELSE IF schema_path = "" \/ schema_path \notin DOMAIN SchemaFiles
           THEN [raised |-> "SchemaNotFoundError", is_valid |-> FALSE, errors |-> <<>>,
                 none |-> FALSE]
        ELSE IF DOMAIN xsd = {"targetNamespace"}
           THEN Returned(FALSE, <<(<<"Failed loading schema">>)>>, FALSE)
        ELSE IF errors # <<>> THEN Returned(FALSE, errors, FALSE)
        ELSE Returned(TRUE, <<>>, TRUE)

\* ------------------------------------------------------------------ initial state
\* SwiftAllianceBank.__init__ with no snapshot file: an empty store whose
\* last_interest_date is the day of construction, in a build with xmlschema
\* installed or in one without
InitPain ==
    /\ today = 0
    /\ customers = <<>>
    /\ accounts = <<>>
    /\ transactions = <<>>
    /\ loans = <<>>
    /\ last_interest_date = today
    /\ data_file = NoFile
    /\ accruals = <<>>
    /\ payment = NoPayment
    /\ mt_text = NoText
    /\ validation = NoValidation
    /\ last = [op |-> "init", customer |-> "", account |-> NoAccount,
               to |-> NoAccount, atype |-> "", amount |-> 0, result |-> "ok",
               ret |-> <<>>, day |-> 0, pre_accounts |-> <<>>,
               pre_transactions |-> <<>>, pre_loans |-> <<>>,
               pre_last_interest_date |-> 0,
               pre_accruals |-> <<>>, prev_withdrawal |-> NoWithdrawal]
    /\ pain_xml = [origin |-> "none"]
    /\ pain_validation = [done |-> FALSE]
    /\ HAS_XMLSCHEMA \in BOOLEAN

\* the state after construction where xmlschema is installed
Init == InitPain /\ HAS_XMLSCHEMA

\* ------------------------------------------------------------------ operations
\* datetime.date.today() moves to the next day
Tick ==
    /\ today < MaxDay
    /\ today' = today + 1
    /\ UNCHANGED <<customers, accounts, transactions, loans, last_interest_date,
                   data_file, accruals, last, codec>>

\* register_customer(info): a KeyError when a required key is missing from
\* info; otherwise the customer is stored under the generated id
register_customer(cid, complete) ==
    /\ IF ~complete
          THEN /\ last' = Call("register_customer", cid, NoAccount, NoAccount, "", 0, "KeyError", <<>>)
               /\ UNCHANGED customers
          ELSE /\ customers' = [c \in DOMAIN customers \cup {cid} |->
                                  IF c = cid THEN [customer_id |-> cid] ELSE customers[c]]
               /\ last' = Call("register_customer", cid, NoAccount, NoAccount, "", 0, "ok", <<>>)
    /\ UNCHANGED <<accounts, transactions, loans, last_interest_date, today, accruals, codec>>
    /\ data_file' = IF last'.result = "ok" THEN _save_data' ELSE data_file

\* create_account(customer_id, account_type, currency, initial_deposit);
\* acct_num is what generate_account_number returns
create_account(customer_id, account_type, initial_deposit, acct_num) ==
    /\ IF customer_id \notin DOMAIN customers
          THEN /\ last' = Call("create_account", customer_id, acct_num, NoAccount, account_type,
                               initial_deposit, "AccountNotFoundError", <<>>)
               /\ UNCHANGED <<accounts, transactions>>
          ELSE LET account == [account_number |-> acct_num, customer_id |-> customer_id,
                               account_type |-> account_type, balance |-> initial_deposit,
                               interest_rate |-> RateOf(account_type),
                               minimum_balance |-> MinimumOf(account_type)]
                   emptied == [a \in DOMAIN transactions \cup {acct_num} |->
                                 IF a = acct_num THEN <<>> ELSE transactions[a]]
               IN  /\ accounts' = [a \in DOMAIN accounts \cup {acct_num} |->
                                     IF a = acct_num THEN account ELSE accounts[a]]
                   /\ transactions' =
                        IF initial_deposit > 0
                           THEN _record_transaction(emptied,
                                    Txn(acct_num, "DEPOSIT", initial_deposit,
                                        <<"Initial deposit">>, NoAccount))
                           ELSE emptied
                   /\ last' = Call("create_account", customer_id, acct_num, NoAccount, account_type,
                                   initial_deposit, "ok", <<>>)
    /\ UNCHANGED <<customers, loans, last_interest_date, today, accruals, codec>>
    /\ data_file' = IF last'.result = "ok" THEN _save_data' ELSE data_file

\* deposit's check of the amount: if amount <= 0: raise ValueError
DepositRejectsStrictlyNegative(amount) == amount < 0

DepositRejects(amount) == amount <= 0

\* deposit's credit: acc.balance += amount
DepositedBalanceWholeUnits(balance, amount) == ((balance + amount) \div 100) * 100

DepositedBalance(balance, amount) == balance + amount

\* deposit(account_number, amount)
deposit(account_number, amount) ==
    /\ IF account_number \notin DOMAIN accounts
          THEN /\ last' = Call("deposit", "", account_number, NoAccount, "", amount,
                               "AccountNotFoundError", <<>>)
               /\ UNCHANGED <<accounts, transactions>>
          ELSE IF DepositRejects(amount)
          THEN /\ last' = Call("deposit", "", account_number, NoAccount, "", amount,
                               "ValueError", <<>>)
               /\ UNCHANGED <<accounts, transactions>>
          ELSE LET txn == Txn(account_number, "DEPOSIT", amount, <<"Cash deposit">>, NoAccount)
               IN  /\ accounts' = [accounts EXCEPT ![account_number].balance =
                                       DepositedBalance(@, amount)]
                   /\ transactions' = _record_transaction(transactions, txn)
                   /\ last' = Call("deposit", "", account_number, NoAccount, "", amount,
                                   "ok", <<txn>>)
    /\ UNCHANGED <<customers, loans, last_interest_date, today, accruals, codec>>
    /\ data_file' = IF last'.result = "ok" THEN _save_data' ELSE data_file

\* withdraw's check of the funds: acc.balance - amount < acc.minimum_balance
WithdrawBelowMinimumInclusive(acc, amount) == acc.balance - amount <= acc.minimum_balance

WithdrawBelowMinimum(acc, amount) == acc.balance - amount < acc.minimum_balance

\* withdraw(account_number, amount)
withdraw(account_number, amount) ==
    /\ IF account_number \notin DOMAIN accounts
          THEN /\ last' = Call("withdraw", "", account_number, NoAccount, "", amount,
                               "AccountNotFoundError", <<>>)
               /\ UNCHANGED <<accounts, transactions>>
          ELSE IF amount <= 0
          THEN /\ last' = Call("withdraw", "", account_number, NoAccount, "", amount,
                               "ValueError", <<>>)
               /\ UNCHANGED <<accounts, transactions>>
          ELSE IF WithdrawBelowMinimum(accounts[account_number], amount)
          THEN /\ last' = Call("withdraw", "", account_number, NoAccount, "", amount,
                               "InsufficientFundsError", <<>>)
               /\ UNCHANGED <<accounts, transactions>>
          ELSE LET txn == Txn(account_number, "WITHDRAWAL", amount, <<"Cash withdrawal">>, NoAccount)
               IN  /\ accounts' = [accounts EXCEPT ![account_number].balance = @ - amount]
                   /\ transactions' = _record_transaction(transactions, txn)
                   /\ last' = Call("withdraw", "", account_number, NoAccount, "", amount,
                                   "ok", <<txn>>)
    /\ UNCHANGED <<customers, loans, last_interest_date, today, accruals, codec>>
    /\ data_file' = IF last'.result = "ok" THEN _save_data' ELSE data_file

\* transfer's check of the funds: src.balance - amount < src.minimum_balance
TransferBelowMinimumIgnoringAmount(src, amount) == src.balance < src.minimum_balance

TransferBelowMinimum(src, amount) == src.balance - amount < src.minimum_balance

\* transfer's credit: dest = self.accounts[to_account]; dest.balance += amount
TransferCreditAssigned(accts, to_account, amount) ==
    [accts EXCEPT ![to_account].balance = amount]

TransferCredit(accts, to_account, amount) ==
    [accts EXCEPT ![to_account].balance = @ + amount]

\* transfer's credit leg: the TRANSFER record on the destination's log
TransferCreditLegSelfReferencing(from_account, to_account, amount) ==
    Txn(to_account, "TRANSFER", amount, <<"Transfer from", from_account>>, to_account)

TransferCreditLeg(from_account, to_account, amount) ==
    Txn(to_account, "TRANSFER", amount, <<"Transfer from", from_account>>, from_account)

\* transfer's debit leg: the TRANSFER record on the source's log
TransferDebitLeg(from_account, to_account, amount) ==
    Txn(from_account, "TRANSFER", amount, <<"Transfer to", to_account>>, to_account)

\* transfer with the source debited before the destination is looked up
transfer_debit_before_lookup(from_account, to_account, amount) ==
    /\ IF from_account \notin DOMAIN accounts
          THEN /\ last' = Call("transfer", "", from_account, to_account, "", amount,
                               "AccountNotFoundError", <<>>)
               /\ UNCHANGED <<accounts, transactions>>
          ELSE IF amount <= 0
          THEN /\ last' = Call("transfer", "", from_account, to_account, "", amount,
                               "ValueError", <<>>)
               /\ UNCHANGED <<accounts, transactions>>
          ELSE IF TransferBelowMinimum(accounts[from_account], amount)
          THEN /\ last' = Call("transfer", "", from_account, to_account, "", amount,
                               "InsufficientFundsError", <<>>)
               /\ UNCHANGED <<accounts, transactions>>
          ELSE LET debit    == TransferDebitLeg(from_account, to_account, amount)
                   credit   == TransferCreditLeg(from_account, to_account, amount)
                   debited  == [accounts EXCEPT ![from_account].balance = @ - amount]
                   logged   == _record_transaction(transactions, debit)
               IN  IF to_account \notin DOMAIN accounts
                      THEN /\ accounts' = debited
                           /\ transactions' = logged
                           /\ last' = Call("transfer", "", from_account, to_account, "",
                                           amount, "AccountNotFoundError", <<>>)
                      ELSE /\ accounts' = TransferCredit(debited, to_account, amount)
                           /\ transactions' = _record_transaction(logged, credit)
                           /\ last' = Call("transfer", "", from_account, to_account, "",
                                           amount, "ok", <<debit, credit>>)
    /\ UNCHANGED <<customers, loans, last_interest_date, today, accruals, codec>>
    /\ data_file' = IF last'.result = "ok" THEN _save_data' ELSE data_file

\* transfer(from_account, to_account, amount)
transfer(from_account, to_account, amount) ==
    /\ IF from_account \notin DOMAIN accounts
          THEN /\ last' = Call("transfer", "", from_account, to_account, "", amount,
                               "AccountNotFoundError", <<>>)
               /\ UNCHANGED <<accounts, transactions>>
          ELSE IF to_account \notin DOMAIN accounts
          THEN /\ last' = Call("transfer", "", from_account, to_account, "", amount,
                               "AccountNotFoundError", <<>>)
               /\ UNCHANGED <<accounts, transactions>>
          ELSE IF amount <= 0
          THEN /\ last' = Call("transfer", "", from_account, to_account, "", amount,
                               "ValueError", <<>>)
               /\ UNCHANGED <<accounts, transactions>>
          ELSE IF TransferBelowMinimum(accounts[from_account], amount)
          THEN /\ last' = Call("transfer", "", from_account, to_account, "", amount,
                               "InsufficientFundsError", <<>>)
               /\ UNCHANGED <<accounts, transactions>>
          ELSE LET debit    == TransferDebitLeg(from_account, to_account, amount)
                   credit   == TransferCreditLeg(from_account, to_account, amount)
                   debited  == [accounts EXCEPT ![from_account].balance = @ - amount]
                   logged   == _record_transaction(transactions, debit)
               IN  /\ accounts' = TransferCredit(debited, to_account, amount)
                   /\ transactions' = _record_transaction(logged, credit)
                   /\ last' = Call("transfer", "", from_account, to_account, "", amount,
                                   "ok", <<debit, credit>>)
    /\ UNCHANGED <<customers, loans, last_interest_date, today, accruals, codec>>
    /\ data_file' = IF last'.result = "ok" THEN _save_data' ELSE data_file

\* the accounts calculate_interest's loop records an INTEREST_CREDIT for
Credited(accts) ==
    {a \in DOMAIN accts : /\ accts[a].account_type # "FIXED_DEPOSIT"
                          /\ DailyInterest(accts[a].balance, accts[a].interest_rate) > 0}

\* the body of calculate_interest's loop for one account: acc.balance += interest
AccrueAccount(acc) ==
    IF acc.account_type # "FIXED_DEPOSIT"
       THEN [acc EXCEPT !.balance = @ + DailyInterest(acc.balance, acc.interest_rate)]
       ELSE acc

\* what calculate_interest leaves in last_interest_date after the loop
AccruedDateNotAdvanced == last_interest_date

AccruedDate == today

\* calculate_interest(): nothing on the day of last_interest_date; otherwise
\* the loop over every account, then last_interest_date = today
calculate_interest ==
    /\ IF today = last_interest_date
          THEN UNCHANGED <<accounts, transactions, last_interest_date>>
          ELSE LET credited == Credited(accounts)
               IN  /\ accounts' = [a \in DOMAIN accounts |-> AccrueAccount(accounts[a])]
                   /\ transactions' =
                        [a \in DOMAIN transactions |->
                           IF a \in credited
                              THEN Append(transactions[a],
                                          Txn(a, "INTEREST_CREDIT",
                                              accounts'[a].balance - accounts[a].balance,
                                              <<"Daily interest credit">>, NoAccount))
                              ELSE transactions[a]]
                   /\ last_interest_date' = AccruedDate
    /\ last' = Call("calculate_interest", "", NoAccount, NoAccount, "", 0, "ok", <<>>)
    /\ accruals' =
         IF today \in DOMAIN accruals THEN accruals
         ELSE [d \in DOMAIN accruals \cup {today} |->
                 IF d = today
                    THEN {a \in DOMAIN accounts :
                            /\ a \in Credited(accounts)
                            /\ ~ /\ Len(transactions'[a]) = Len(transactions[a]) + 1
                                 /\ transactions'[a][Len(transactions'[a])].transaction_type
                                       = "INTEREST_CREDIT"
                                 /\ transactions'[a][Len(transactions'[a])].timestamp = today}
                    ELSE accruals[d]]
    /\ UNCHANGED <<customers, loans, today, codec>>
    /\ data_file' = IF today = last_interest_date THEN data_file ELSE _save_data'

\* apply_for_loan's total_interest = amount * interest_rate * Decimal(term_months)
\* / Decimal('12'): the product is exact, the quotient a context division
LoanInterest(amount, interest_rate, term_months) ==
    DecimalDivInt([digits |-> NatDigits(amount * interest_rate.coef * term_months),
                   exp |-> interest_rate.exp - 2], 12)

\* total_amount = amount + total_interest
LoanTotal(amount, interest_rate, term_months) ==
    DecimalAdd([digits |-> NatDigits(amount), exp |-> -2],
               LoanInterest(amount, interest_rate, term_months))

\* monthly_payment = (total_amount / Decimal(term_months)).quantize(0.01, ROUND_HALF_UP)
MonthlyPaymentOverYear(total_amount, term_months) ==
    QuantizeCents(DecimalDivInt(total_amount, 12))

MonthlyPayment(total_amount, term_months) ==
    QuantizeCents(DecimalDivInt(total_amount, term_months))

\* monthly_payment and remaining_balance of apply_for_loan, in cents,
\* tabulated over the loans asked for
LoanSchedule ==
    [amount \in LoanAmounts, interest_rate \in LoanRates, term_months \in LoanTerms \ {0} |->
        LET total_amount == LoanTotal(amount, interest_rate, term_months)
        IN  [monthly_payment |-> MonthlyPayment(total_amount, term_months),
             remaining_balance |-> QuantizeCents(total_amount)]]

\* apply_for_loan(customer_id, amount, term_months, interest_rate) for a
\* positive amount and rate and no negative term; loan_id is what
\* _generate_id("LOAN") returns.  Decimal(0) as the divisor of the monthly
\* payment raises decimal.DivisionByZero before any loan exists.
apply_for_loan(customer_id, amount, term_months, interest_rate, loan_id) ==
    /\ IF customer_id \notin DOMAIN customers
          THEN /\ last' = Call("apply_for_loan", customer_id, NoAccount, NoAccount, "", amount,
                               "AccountNotFoundError", <<>>)
                          @@ [term_months |-> term_months, interest_rate |-> interest_rate]
               /\ UNCHANGED loans
          ELSE IF term_months = 0
          THEN /\ last' = Call("apply_for_loan", customer_id, NoAccount, NoAccount, "", amount,
                               "DivisionByZero", <<>>)
                          @@ [term_months |-> term_months, interest_rate |-> interest_rate]
               /\ UNCHANGED loans
          ELSE LET schedule == LoanSchedule[amount, interest_rate, term_months]
                   loan == [loan_id |-> loan_id, customer_id |-> customer_id,
                            principal_amount |-> amount, interest_rate |-> interest_rate,
                            term_months |-> term_months, start_date |-> today,
                            monthly_payment |-> schedule.monthly_payment,
                            remaining_balance |-> schedule.remaining_balance]
               IN  /\ loans' = [l \in DOMAIN loans \cup {loan_id} |->
                                  IF l = loan_id THEN loan ELSE loans[l]]
                   /\ last' = Call("apply_for_loan", customer_id, NoAccount, NoAccount, "",
                                   amount, "ok", <<loan>>)
                              @@ [term_months |-> term_months, interest_rate |-> interest_rate]
    /\ UNCHANGED <<customers, accounts, transactions, last_interest_date, today, accruals, codec>>
    /\ data_file' = IF last'.result = "ok" THEN _save_data' ELSE data_file

\* get_account_balance(account_number)
get_account_balance(account_number) ==
    /\ last' = IF account_number \notin DOMAIN accounts
                  THEN Call("get_account_balance", "", account_number, NoAccount, "", 0,
                            "AccountNotFoundError", <<>>)
                  ELSE Call("get_account_balance", "", account_number, NoAccount, "", 0,
                            "ok", <<accounts[account_number].balance>>)
    /\ UNCHANGED <<customers, accounts, transactions, loans, last_interest_date, data_file,
                   today, accruals, codec>>

\* get_transaction_history(account_number, start_date, end_date): an empty
\* list for an account number with no log; otherwise the log, or with a bound
\* given the records dated within the bounds
get_transaction_history(account_number, start_date, end_date) ==
    /\ last' =
         IF account_number \notin DOMAIN transactions
            THEN Call("get_transaction_history", "", account_number, NoAccount, "", 0,
                      "ok", <<>>)
            ELSE LET txs == transactions[account_number]
                     Within(t) == /\ ~(start_date # None /\ t.timestamp < start_date)
                                  /\ ~(end_date # None /\ t.timestamp > end_date)
                 IN  Call("get_transaction_history", "", account_number, NoAccount, "", 0, "ok",
                          IF start_date # None \/ end_date # None
                             THEN SelectSeq(txs, Within) ELSE txs)
    /\ UNCHANGED <<customers, accounts, transactions, loans, last_interest_date, data_file,
                   today, accruals, codec>>

\* SwiftAllianceBank(data_file) constructed again over the file the last
\* store left: the new store is what _load_data makes of the file
Restart ==
    LET loaded == _load_data(data_file, today)
    IN  /\ customers' = loaded.store.customers
        /\ accounts' = loaded.store.accounts
        /\ transactions' = loaded.store.transactions
        /\ loans' = loaded.store.loans
        /\ last_interest_date' = loaded.store.last_interest_date
        /\ last' = Call("__init__", "", NoAccount, NoAccount, "", 0, loaded.logged, <<>>)
        /\ UNCHANGED <<data_file, today, accruals, codec>>

\* the file damaged between two runs: cut short so that it is no JSON any
\* more, or the balance of its i-th account record no decimal string
Truncate ==
    /\ data_file # NoFile
    /\ data_file' = NotJson
    /\ UNCHANGED <<customers, accounts, transactions, loans, last_interest_date,
                   today, accruals, last, codec>>

GarbleStep ==
    \E i \in 1..Cardinality(AcctNums) :
    /\ data_file \notin {NoFile, NotJson}
    /\ i \in 1..Len(data_file.accounts)
    /\ data_file' = [FileText(data_file) EXCEPT !.accounts[i].balance = <<"x">>]
    /\ UNCHANGED <<customers, accounts, transactions, loans, last_interest_date,
                   today, accruals, last, codec>>

\* the payment window: the helper builds the payment record from the inputs
BuildPayment(account_number, account_name, beneficiary_account, beneficiary_name, amount, currency, value_date, remittance_info, beneficiary_bic, reference, uuid) ==
    /\ payment' = payment_from_transaction(account_number, account_name, beneficiary_account,
                                           beneficiary_name, amount, currency, value_date,
                                           remittance_info, beneficiary_bic, reference, uuid)
    /\ mt_text' = NoText
    /\ validation' = NoValidation
    /\ pain_xml' = [origin |-> "none"]
    /\ pain_validation' = [done |-> FALSE]
    /\ UNCHANGED HAS_XMLSCHEMA
    /\ UNCHANGED <<customers, accounts, transactions, loans, last_interest_date,
                   data_file, today, accruals, last>>

\* the payment rendered as an MT103 text
Generate ==
    /\ payment # NoPayment
    /\ mt_text' = [origin |-> "generated", text |-> generate_mt103(payment)]
    /\ validation' = NoValidation
    /\ UNCHANGED <<customers, accounts, transactions, loans, last_interest_date,
                   data_file, today, accruals, last, payment, pain_xml, pain_validation,
                   HAS_XMLSCHEMA>>

\* the rendered text validated
ValidateGenerated ==
    /\ mt_text.origin = "generated"
    /\ validation' = validate_mt103_text(mt_text.text)
                       @@ [done |-> TRUE, origin |-> "generated", text |-> mt_text.text]
    /\ UNCHANGED <<customers, accounts, transactions, loans, last_interest_date,
                   data_file, today, accruals, last, payment, mt_text, pain_xml, pain_validation,
                   HAS_XMLSCHEMA>>

\* a text from elsewhere validated
ValidateGiven(text) ==
    /\ validation' = GivenValidation[text] @@ [done |-> TRUE, origin |-> "given", text |-> text]
    /\ UNCHANGED <<customers, accounts, transactions, loans, last_interest_date,
                   data_file, today, accruals, last, payment, mt_text, pain_xml, pain_validation,
                   HAS_XMLSCHEMA>>

\* the payment rendered as a pain.001 document
GeneratePain ==
    /\ payment # NoPayment
    /\ pain_xml' = [origin |-> "generated", xml |-> generate_pain001(payment)]
    /\ pain_validation' = [done |-> FALSE]
    /\ UNCHANGED <<customers, accounts, transactions, loans, last_interest_date,
                   data_file, today, accruals, last, payment, mt_text, validation,
                   HAS_XMLSCHEMA>>

\* the schema path is none, a file that is not there, the bundled schema, or
\* an upload that is no schema.  The rendered document validated against the
\* schema at a path
ValidatePainGenerated ==
    \E schema_path \in {"", "missing.xsd", MINIMAL_XSD_PATH, "upload.xsd"} :
    /\ pain_xml.origin = "generated"
    /\ pain_validation' = validate_pain001_generated(pain_xml.xml, schema_path)
                            @@ [done |-> TRUE, origin |-> "generated", xml |-> pain_xml.xml,
                                schema_path |-> schema_path]
    /\ UNCHANGED <<customers, accounts, transactions, loans, last_interest_date,
                   data_file, today, accruals, last, payment, mt_text, validation,
                   pain_xml, HAS_XMLSCHEMA>>

\* a document from elsewhere validated against the schema at a path: one
\* with an & written as it is, or one without a PmtInf
ValidatePainGiven ==
    \E schema_path \in {"", "missing.xsd", MINIMAL_XSD_PATH, "upload.xsd"},
       body \in {<<Node("PmtInf", <<Leaf("PmtInfId", <<"A", "&", "B">>)>>)>>,
                 <<Node("GrpHdr",
                       <<Leaf("MsgId", <<"R", "E", "F", "1", "2", "3">>),
                         Leaf("CreDtTm", <<"2", "0", "2", "4", "-", "0", "3", "-", "1", "5", "T", "1", "2", ":", "0", "0", ":", "0", "0", "Z">>),
                         Leaf("NbOfTxs", <<"1">>),
                         Leaf("CtrlSum", <<"1", "5", "0", "0", ".", "5", "0">>)>>)>>} :
    LET xml_string == [Node("CstmrCdtTrfInitn", body) EXCEPT !.attrs = [xmlns |-> NS]]
    IN
    /\ pain_validation' = validate_pain001_generated(xml_string, schema_path)
                            @@ [done |-> TRUE, origin |-> "given", xml |-> xml_string,
                                schema_path |-> schema_path]
    /\ UNCHANGED <<customers, accounts, transactions, loans, last_interest_date,
                   data_file, today, accruals, last, payment, mt_text, validation,
                   pain_xml, HAS_XMLSCHEMA>>

\* ------------------------------------------------------------------ steps
\* one call of each operation, on every input of the input sets; a call that
\* would take the store past MaxTxns records is left out
RegisterStep == \E cid \in CustIds, complete \in BOOLEAN : register_customer(cid, complete)

CreateStep ==
    \E c \in CustIds, t \in AccountTypes, d \in InitialDeposits, n \in AcctNums :
        TxnCount < MaxTxns /\ create_account(c, t, d, n)

DepositStep == \E a \in AcctNums, m \in Amounts : TxnCount < MaxTxns /\ deposit(a, m)

WithdrawStep == \E a \in AcctNums, m \in Amounts : TxnCount < MaxTxns /\ withdraw(a, m)

TransferStep ==
    \E a \in AcctNums, b \in AcctNums, m \in Amounts :
        TxnCount + 2 <= MaxTxns /\ transfer(a, b, m)

InterestStep ==
    calculate_interest /\ SumLens(transactions', DOMAIN transactions') <= MaxTxns

\* create_account for known and unknown customers
CreateForStep ==
    \E c \in CustIds \cup {UnknownCustomer}, t \in AccountTypes, d \in InitialDeposits,
       n \in AcctNums :
        TxnCount < MaxTxns /\ create_account(c, t, d, n)

LoanStep ==
    \E c \in CustIds \cup {UnknownCustomer}, m \in LoanAmounts, t \in LoanTerms,
       r \in LoanRates, l \in LoanIds :
        apply_for_loan(c, m, t, r, l)

\* apply_for_loan over a term of no months, for known and unknown customers
TermStep ==
    \E c \in CustIds \cup {UnknownCustomer}, m \in LoanAmounts, t \in LoanTerms \cap {0},
       r \in LoanRates, l \in LoanIds :
        apply_for_loan(c, m, t, r, l)

BalanceStep == \E a \in AcctNums : get_account_balance(a)

HistoryStep ==
    \E a \in AcctNums, s \in {None, 0}, e \in {None, 0} : get_transaction_history(a, s, e)

\* a payment for an MT103, which has no field for the beneficiary's BIC: the
\* ordering name may hold a line that starts a field, and the value date is
\* not given, a date, or no date of the calendar
PaymentStep ==
    \E oa \in OrderingAccounts,
       on \in {<<"A", "C", "M", "E">>, <<"A", "\n", ":", "5", "9", ":", "B">>},
       ba \in BeneficiaryAccounts, bn \in BeneficiaryNames, am \in PaymentAmounts,
       cu \in Currencies,
       vd \in {<<>>, <<"2", "0", "2", "4", "-", "0", "3", "-", "1", "5">>, <<"2", "0", "2", "4", "-", "0", "2", "-", "3", "0">>},
       ri \in Remittances, rf \in References, uu \in Uuids :
        BuildPayment(oa, on, ba, bn, am, cu, vd, ri, <<>>, rf, uu)

ValidateGivenStep == \E text \in GivenTexts : ValidateGiven(text)

\* a payment for a pain.001, with or without the beneficiary's BIC: the
\* ordering name may hold a character XML escapes
PainPaymentStep ==
    \E oa \in OrderingAccounts,
       on \in {<<"A", "C", "M", "E">>, <<"A", "&", "B">>},
       ba \in BeneficiaryAccounts, bn \in BeneficiaryNames, am \in PaymentAmounts,
       cu \in Currencies,
       vd \in {<<"2", "0", "2", "4", "-", "0", "3", "-", "1", "5">>},
       ri \in Remittances,
       bic \in {<<>>, <<"B", "A", "N", "K", "D", "E", "F", "F">>},
       rf \in References, uu \in Uuids :
        BuildPayment(oa, on, ba, bn, am, cu, vd, ri, bic, rf, uu)

\* the whole machine
Next ==
    \/ Tick
    \/ RegisterStep
    \/ CreateStep
    \/ DepositStep
    \/ WithdrawStep
    \/ TransferStep
    \/ InterestStep
    \/ LoanStep
    \/ BalanceStep
    \/ HistoryStep
    \/ Truncate
    \/ GarbleStep
    \/ Restart
    \/ PaymentStep
    \/ Generate
    \/ ValidateGenerated
    \/ ValidateGivenStep
    \/ PainPaymentStep
    \/ GeneratePain
    \/ ValidatePainGenerated
    \/ ValidatePainGiven

Spec == Init /\ [][Next]_vars

\* the ledger within one calendar day: every operation but the accrual, the
\* clock standing still
NextLedger ==
    \/ RegisterStep
    \/ CreateStep
    \/ DepositStep
    \/ WithdrawStep
    \/ TransferStep

SpecLedger == Init /\ [][NextLedger]_vars

\* the accrual across days: the clock, the accrual, and the operations that
\* open accounts
NextInterest ==
    \/ Tick
    \/ RegisterStep
    \/ CreateStep
    \/ InterestStep

SpecInterest == Init /\ [][NextInterest]_vars

\* the store and its queries within one day: customers, accounts for known
\* and unknown customers, and the two read-only calls
NextStore ==
    \/ RegisterStep
    \/ CreateForStep
    \/ BalanceStep
    \/ HistoryStep

SpecStore == Init /\ [][NextStore]_vars

\* the store and its loans within one day: customers, accounts, and loans
\* for known and unknown customers
NextLoans ==
    \/ RegisterStep
    \/ CreateStep
    \/ LoanStep

SpecLoans == Init /\ [][NextLoans]_vars

\* the store across restarts within one day: accounts are opened, the file
\* may be damaged, and a new store is constructed over it
NextRestart ==
    \/ RegisterStep
    \/ CreateStep
    \/ Truncate
    \/ GarbleStep
    \/ Restart

SpecRestart == Init /\ [][NextRestart]_vars

\* the calls that change the store within one day, each with the inputs it
\* refuses; of the loans, those over a term of no months
NextSurface ==
    \/ RegisterStep
    \/ CreateForStep
    \/ DepositStep
    \/ WithdrawStep
    \/ TransferStep
    \/ TermStep

SpecSurface == Init /\ [][NextSurface]_vars

\* the message codec alone: payments built, rendered and validated, and
\* texts from elsewhere validated
NextCodec ==
    \/ PaymentStep
    \/ Generate
    \/ ValidateGenerated
    \/ ValidateGivenStep

SpecCodec == Init /\ [][NextCodec]_vars

\* the pain.001 codec alone, in a build with and in one without xmlschema:
\* payments built and rendered, and documents validated against the schema
\* at a path
NextPain ==
    \/ PainPaymentStep
    \/ GeneratePain
    \/ ValidatePainGenerated
    \/ ValidatePainGiven

SpecPain == InitPain /\ [][NextPain]_vars

\* ------------------------------------------------------------------ claims
\* what the last call found and what it left
PreAccounts == last.pre_accounts
PreTransactions == last.pre_transactions

\* no account and no log differs from what the last call found
LedgerUntouched ==
    /\ accounts = PreAccounts
    /\ transactions = PreTransactions

\* the records the last call appended to account a's log (the log it found
\* being a prefix of the log it left)
Appended(a) ==
    IF a \in DOMAIN PreTransactions
       THEN SubSeq(transactions[a], Len(PreTransactions[a]) + 1, Len(transactions[a]))
       ELSE transactions[a]

LogExtended(a) ==
    \/ a \notin DOMAIN PreTransactions
    \/ /\ Len(transactions[a]) >= Len(PreTransactions[a])
       /\ SubSeq(transactions[a], 1, Len(PreTransactions[a])) = PreTransactions[a]

\* every account but those of `touched` is as the last call found it
OthersUntouched(touched) ==
    /\ DOMAIN accounts = DOMAIN PreAccounts
    /\ DOMAIN transactions = DOMAIN PreTransactions
    /\ \A c \in DOMAIN accounts \ touched :
          accounts[c] = PreAccounts[c] /\ transactions[c] = PreTransactions[c]

\* the last call was a withdraw that debited `amount` and logged one WITHDRAWAL
WithdrawalDone ==
    /\ last.result = "ok"
    /\ accounts[last.account].balance = PreAccounts[last.account].balance - last.amount
    /\ LogExtended(last.account)
    /\ Len(Appended(last.account)) = 1
    /\ Appended(last.account)[1].transaction_type = "WITHDRAWAL"
    /\ Appended(last.account)[1].amount = last.amount

\* C1 as stated: for every existing account and every amount, withdraw fails
\* with InsufficientFundsError if and only if balance - amount < minimum_balance,
\* and at balance - amount = minimum_balance it succeeds, debits exactly the
\* amount and appends one WITHDRAWAL record.
C1_WithdrawFailsIffBelowMinimum ==
    (last.op = "withdraw" /\ last.account \in DOMAIN PreAccounts) =>
        LET acc == PreAccounts[last.account]
        IN  /\ (last.result = "InsufficientFundsError")
                  <=> (acc.balance - last.amount < acc.minimum_balance)
            /\ (acc.balance - last.amount = acc.minimum_balance) => WithdrawalDone

\* C1 amended: the same for every amount > 0 (a non-positive amount fails with
\* ValueError whatever the balance); a positive amount that does not take the
\* balance below the minimum is debited exactly and logged as one WITHDRAWAL.
C1_PositiveWithdrawFailsIffBelowMinimum ==
    (last.op = "withdraw" /\ last.account \in DOMAIN PreAccounts) =>
        LET acc == PreAccounts[last.account]
        IN  IF last.amount > 0
               THEN /\ (last.result = "InsufficientFundsError")
                          <=> (acc.balance - last.amount < acc.minimum_balance)
                    /\ (acc.balance - last.amount >= acc.minimum_balance) => WithdrawalDone
               ELSE last.result = "ValueError" /\ LedgerUntouched

\* C1 witness: a withdrawal that lands exactly on the minimum balance
C1_BoundaryWithdrawal ==
    /\ last.op = "withdraw"
    /\ last.result = "ok"
    /\ PreAccounts[last.account].balance - last.amount
          = PreAccounts[last.account].minimum_balance

\* C2: after every successful withdraw or transfer (a transfer to the source
\* itself included) the debited account's balance is at least its
\* minimum_balance.
C2_DebitKeepsMinimum ==
    (last.op \in {"withdraw", "transfer"} /\ last.result = "ok") =>
        accounts[last.account].balance >= accounts[last.account].minimum_balance

\* C2 witness: a successful transfer from an account to itself
C2_SelfTransfer ==
    /\ last.op = "transfer"
    /\ last.result = "ok"
    /\ last.account = last.to

\* C3: a successful transfer(a, b, amt), a = b included, leaves
\* balance(a) + balance(b) as it was and changes no other account.
C3_TransferConserves ==
    (last.op = "transfer" /\ last.result = "ok") =>
        /\ accounts[last.account].balance + accounts[last.to].balance
              = PreAccounts[last.account].balance + PreAccounts[last.to].balance
        /\ DOMAIN accounts = DOMAIN PreAccounts
        /\ \A c \in DOMAIN accounts \ {last.account, last.to} : accounts[c] = PreAccounts[c]
        /\ \A c \in DOMAIN accounts :
              [accounts[c] EXCEPT !.balance = 0] = [PreAccounts[c] EXCEPT !.balance = 0]

\* C3 witness: money moved between two different accounts
C3_TransferBetweenTwo ==
    /\ last.op = "transfer"
    /\ last.result = "ok"
    /\ last.account # last.to
    /\ accounts[last.to].balance = PreAccounts[last.to].balance + last.amount

\* a debit leg / a credit leg among the records the last call appended to a
HasNewDebitLeg(a) ==
    /\ a \in DOMAIN transactions
    /\ \E i \in 1..Len(Appended(a)) : Appended(a)[i].description[1] = "Transfer to"

HasNewCreditLeg(a) ==
    /\ a \in DOMAIN transactions
    /\ \E i \in 1..Len(Appended(a)) : Appended(a)[i].description[1] = "Transfer from"

\* C4: a transfer that fails (unknown source, unknown destination,
\* non-positive amount, source below its minimum) has changed no balance and
\* no log, and the store is never left with the source debited and the
\* destination not credited.
C4_TransferValidatesFirst ==
    (last.op = "transfer") =>
        /\ (last.result # "ok") => LedgerUntouched
        /\ (last.result = "ok") <=>
              /\ last.account \in DOMAIN PreAccounts
              /\ last.to \in DOMAIN PreAccounts
              /\ last.amount > 0
              /\ PreAccounts[last.account].balance - last.amount
                    >= PreAccounts[last.account].minimum_balance
        /\ (\/ HasNewDebitLeg(last.account)
            \/ /\ last.account \in DOMAIN PreAccounts
               /\ accounts[last.account].balance < PreAccounts[last.account].balance)
              => /\ last.to \in DOMAIN accounts
                 /\ HasNewCreditLeg(last.to)
                 /\ accounts[last.to].balance
                       = (IF last.to = last.account THEN PreAccounts[last.to].balance
                          ELSE PreAccounts[last.to].balance + last.amount)

\* C4 witness: a funded source, a positive amount, an unknown destination
C4_UnknownDestination ==
    /\ last.op = "transfer"
    /\ last.result = "AccountNotFoundError"
    /\ last.account \in DOMAIN PreAccounts
    /\ last.to \notin DOMAIN PreAccounts
    /\ last.amount > 0
    /\ PreAccounts[last.account].balance - last.amount
          >= PreAccounts[last.account].minimum_balance

\* C5: a successful transfer(from, to, amount) appends exactly two TRANSFER
\* records and nothing else: one on the log of `from` with related_account =
\* to, one on the log of `to` with related_account = from, both of the
\* amount; it returns (debit leg, credit leg).
C5_TransferAppendsTwoLegs ==
    (last.op = "transfer" /\ last.result = "ok") =>
        LET f == last.account
            t == last.to
            debit == last.ret[1]
            credit == last.ret[2]
        IN  /\ Len(last.ret) = 2
            /\ debit.transaction_type = "TRANSFER" /\ credit.transaction_type = "TRANSFER"
            /\ debit.account_number = f /\ debit.related_account = t
            /\ credit.account_number = t /\ credit.related_account = f
            /\ debit.amount = last.amount /\ credit.amount = last.amount
            /\ LogExtended(f) /\ LogExtended(t)
            /\ IF f = t
                  THEN Appended(f) = <<debit, credit>>
                  ELSE Appended(f) = <<debit>> /\ Appended(t) = <<credit>>
            /\ DOMAIN transactions = DOMAIN PreTransactions
            /\ \A c \in DOMAIN transactions \ {f, t} : transactions[c] = PreTransactions[c]

\* C5 witness: both legs of a transfer between two accounts are on their logs
C5_TwoLegsLogged ==
    /\ last.op = "transfer"
    /\ last.result = "ok"
    /\ last.account # last.to
    /\ Len(transactions[last.account]) = Len(PreTransactions[last.account]) + 1
    /\ Len(transactions[last.to]) = Len(PreTransactions[last.to]) + 1

\* C6: a successful withdraw immediately followed by a deposit of the same
\* amount on the same account leaves the balance the withdraw started from.
C6_WithdrawThenDepositRestores ==
    (/\ last.op = "deposit"
     /\ last.result = "ok"
     /\ last.prev_withdrawal.account = last.account
     /\ last.prev_withdrawal.amount = last.amount) =>
        accounts[last.account].balance = last.prev_withdrawal.balance

\* C6 witness: a deposit that follows a withdrawal of the same amount
C6_DepositAfterWithdrawal ==
    /\ last.op = "deposit"
    /\ last.result = "ok"
    /\ last.prev_withdrawal.account = last.account
    /\ last.prev_withdrawal.amount = last.amount
    /\ PreAccounts[last.account].balance = last.prev_withdrawal.balance - last.amount

\* C10: deposit on an existing account with amount > 0 adds exactly the amount
\* and appends exactly one DEPOSIT record of it, whatever the minimum balance;
\* with amount <= 0 or an unknown account it fails and changes no balance and
\* no log.
C10_DepositCreditsOrFails ==
    (last.op = "deposit") =>
        IF last.account \in DOMAIN PreAccounts /\ last.amount > 0
           THEN /\ last.result = "ok"
                /\ accounts[last.account].balance
                      = PreAccounts[last.account].balance + last.amount
                /\ LogExtended(last.account)
                /\ Len(Appended(last.account)) = 1
                /\ Appended(last.account)[1].transaction_type = "DEPOSIT"
                /\ Appended(last.account)[1].amount = last.amount
                /\ OthersUntouched({last.account})
           ELSE last.result # "ok" /\ LedgerUntouched

\* C10 witness: a deposit accepted on an account that stays below its minimum
C10_DepositBelowMinimum ==
    /\ last.op = "deposit"
    /\ last.result = "ok"
    /\ accounts[last.account].balance < accounts[last.account].minimum_balance

\* C7: a calculate_interest call on a calendar date on which it was already
\* called changes no balance, appends no transaction and leaves
\* last_interest_date as it was.
C7_SameDayAccrualIsNoOp ==
    (last.op = "calculate_interest" /\ last.day \in DOMAIN last.pre_accruals) =>
        /\ LedgerUntouched
        /\ last_interest_date = last.pre_last_interest_date

\* C7 witness: a second call on a date whose first call credited an account
C7_SecondCallAfterCredit ==
    /\ last.op = "calculate_interest"
    /\ last.day \in DOMAIN last.pre_accruals
    /\ \E a \in DOMAIN transactions : \E i \in 1..Len(transactions[a]) :
          /\ transactions[a][i].transaction_type = "INTEREST_CREDIT"
          /\ transactions[a][i].timestamp = last.day

\* C8: calculate_interest called on two different dates (on or after the date
\* the store was constructed) gives two independent credits: on each of the
\* two dates every non-FIXED_DEPOSIT account whose computed interest is
\* positive receives one INTEREST_CREDIT.
C8_TwoDatesTwoCredits ==
    \A d1 \in DOMAIN accruals, d2 \in DOMAIN accruals :
        (d1 # d2) => accruals[d1] = {} /\ accruals[d2] = {}

\* round_half_up(balance * interest_rate / 365, 2) in exact arithmetic, cents
ExactInterest(balance, rate) ==
    LET den == DaysPerYear * Pow10(-rate.exp)
        num == Abs(balance) * rate.coef
        q   == (2 * num + den) \div (2 * den)
    IN  IF balance < 0 THEN -q ELSE q

\* C9: when the accrual runs, each non-FIXED_DEPOSIT account is credited
\* interest = round_half_up(balance * interest_rate / 365, 2) only if that is
\* positive, every balance change comes with exactly one INTEREST_CREDIT
\* record of the same amount, and FIXED_DEPOSIT accounts and accounts whose
\* interest is not positive keep their balance and their log.
C9_AccrualCreditsRoundedInterest ==
    (last.op = "calculate_interest" /\ last.day # last.pre_last_interest_date) =>
        /\ DOMAIN accounts = DOMAIN PreAccounts
        /\ \A a \in DOMAIN PreAccounts :
              LET acc == PreAccounts[a]
                  interest == ExactInterest(acc.balance, acc.interest_rate)
              IN  IF acc.account_type # "FIXED_DEPOSIT" /\ interest > 0
                     THEN /\ accounts[a].balance = acc.balance + interest
                          /\ LogExtended(a)
                          /\ Len(Appended(a)) = 1
                          /\ Appended(a)[1].transaction_type = "INTEREST_CREDIT"
                          /\ Appended(a)[1].amount = interest
                     ELSE /\ accounts[a].balance = acc.balance
                          /\ transactions[a] = PreTransactions[a]

\* the two ways C9 fails, each alone: a balance changed with no record ...
C9_BalanceChangeIsRecorded ==
    (last.op = "calculate_interest") =>
        \A a \in DOMAIN PreAccounts :
            (accounts[a].balance # PreAccounts[a].balance) =>
                /\ Len(Appended(a)) = 1
                /\ Appended(a)[1].transaction_type = "INTEREST_CREDIT"
                /\ Appended(a)[1].amount = accounts[a].balance - PreAccounts[a].balance

\* ... and a credit that is not the exactly rounded interest
C9_CreditIsExactlyRounded ==
    (last.op = "calculate_interest" /\ last.day # last.pre_last_interest_date) =>
        \A a \in DOMAIN PreAccounts :
            (PreAccounts[a].account_type # "FIXED_DEPOSIT" /\ PreAccounts[a].balance >= 0) =>
                accounts[a].balance - PreAccounts[a].balance
                    = ExactInterest(PreAccounts[a].balance, PreAccounts[a].interest_rate)

\* the table of the specification: interest rate and minimum balance (cents)
\* by account type
TableRate(account_type) ==
    CASE account_type = "SAVINGS" -> [coef |-> 2, exp |-> -2]
      [] account_type = "CURRENT" -> [coef |-> 1, exp |-> -2]
      [] account_type = "FIXED_DEPOSIT" -> [coef |-> 5, exp |-> -2]
      [] OTHER -> [coef |-> 15, exp |-> -3]

TableMinimum(account_type) ==
    CASE account_type = "SAVINGS" -> 50 * 100
      [] account_type = "CURRENT" -> 1000 * 100
      [] account_type = "FIXED_DEPOSIT" -> 5000 * 100
      [] OTHER -> 100 * 100

\* C11: create_account for a known customer leaves an account of the given
\* type and owner whose interest rate and minimum balance are those of the
\* table, whose balance is initial_deposit, and whose log is one DEPOSIT of
\* initial_deposit if initial_deposit > 0 and empty otherwise; for an unknown
\* customer it fails with AccountNotFoundError and leaves accounts and logs
\* as they were.
C11_CreateAccountContract ==
    (last.op = "create_account") =>
        IF last.customer \in DOMAIN customers
           THEN /\ last.result = "ok"
                /\ last.account \in DOMAIN accounts
                /\ last.account \in DOMAIN transactions
                /\ LET acc == accounts[last.account]
                       log == transactions[last.account]
                   IN  /\ acc.account_number = last.account
                       /\ acc.customer_id = last.customer
                       /\ acc.account_type = last.atype
                       /\ acc.interest_rate = TableRate(last.atype)
                       /\ acc.minimum_balance = TableMinimum(last.atype)
                       /\ acc.balance = last.amount
                       /\ IF last.amount > 0
                             THEN /\ Len(log) = 1
                                  /\ log[1].transaction_type = "DEPOSIT"
                                  /\ log[1].amount = last.amount
                                  /\ log[1].account_number = last.account
                             ELSE log = <<>>
           ELSE /\ last.result = "AccountNotFoundError"
                /\ LedgerUntouched

\* C11 witness: an account of a type outside the three named ones opened
\* with a positive deposit
C11_OtherTypeOpened ==
    /\ last.op = "create_account"
    /\ last.result = "ok"
    /\ last.atype = "CORPORATE"
    /\ last.amount > 0

\* C12: generated identifiers are fresh: a create_account or
\* register_customer call that succeeds adds exactly one account or customer
\* under a key the store did not hold, and leaves every customer, account and
\* log the store held as it was.
C12_GeneratedIdsAreFresh ==
    [][ /\ \A n \in AcctNums :
              ((\E c \in CustIds \cup {UnknownCustomer}, t \in AccountTypes,
                   d \in InitialDeposits : create_account(c, t, d, n))
               /\ last'.result = "ok") =>
                  /\ n \notin DOMAIN accounts
                  /\ DOMAIN accounts' = DOMAIN accounts \cup {n}
                  /\ \A a \in DOMAIN accounts :
                        accounts'[a] = accounts[a] /\ transactions'[a] = transactions[a]
                  /\ customers' = customers
        /\ \A cid \in CustIds :
              register_customer(cid, TRUE) =>
                  /\ cid \notin DOMAIN customers
                  /\ DOMAIN customers' = DOMAIN customers \cup {cid}
                  /\ \A c \in DOMAIN customers : customers'[c] = customers[c]
                  /\ accounts' = accounts /\ transactions' = transactions
      ]_vars

\* C13: every account's log is append-only: no step of the ledger removes a
\* log or leaves one that does not begin with the log it found, record for
\* record.
C13_LogsAreAppendOnly ==
    [][ \A a \in DOMAIN transactions :
           /\ a \in DOMAIN transactions'
           /\ Len(transactions'[a]) >= Len(transactions[a])
           /\ SubSeq(transactions'[a], 1, Len(transactions[a])) = transactions[a]
      ]_vars

\* C14: a not-found condition is always fatal: create_account and
\* apply_for_loan for a customer id the store does not hold, and deposit,
\* withdraw, transfer, get_account_balance and get_transaction_history for an
\* account number it does not hold, fail with the not-found error.
C14_NotFoundIsFatal ==
    /\ (last.op \in {"create_account", "apply_for_loan"}
        /\ last.customer \notin DOMAIN customers) =>
           last.result = "AccountNotFoundError"
    /\ (last.op \in {"deposit", "withdraw", "get_account_balance", "get_transaction_history"}
        /\ last.account \notin DOMAIN PreAccounts) =>
           last.result = "AccountNotFoundError"
    /\ (last.op = "transfer"
        /\ (last.account \notin DOMAIN PreAccounts \/ last.to \notin DOMAIN PreAccounts)) =>
           last.result = "AccountNotFoundError"

\* the store as a record
Store ==
    [customers |-> customers, accounts |-> accounts, transactions |-> transactions,
     loans |-> loans, last_interest_date |-> last_interest_date]

C16_FailedLoadLeavesEmptyStore ==
    (last.op = "__init__" /\ (data_file = NoFile \/ last.result = "exception")) =>
        /\ customers = <<>>
        /\ accounts = <<>>
        /\ transactions = <<>>
        /\ loans = <<>>

\* round_half_up(num / den, 0) for natural numbers
RoundHalfUp(num, den) == (num \div den) + (IF 2 * (num % den) >= den THEN 1 ELSE 0)

\* the loan schedule in exact arithmetic, in cents: with the rate written
\* coef / scale, principal + principal * rate * term / 12 is
\* principal * (12 * scale + coef * term) / (12 * scale)
ExactRemaining(principal, rate, term) ==
    RoundHalfUp(principal * (12 * Pow10(-rate.exp) + rate.coef * term),
                12 * Pow10(-rate.exp))

ExactMonthly(principal, rate, term) ==
    RoundHalfUp(principal * (12 * Pow10(-rate.exp) + rate.coef * term),
                12 * Pow10(-rate.exp) * term)

RECURSIVE SplitLines(_)
\* the lines of a text
SplitLines(chars) ==
    LET breaks == {i \in 1..Len(chars) : chars[i] = "\n"}
    IN  IF breaks = {} THEN <<chars>>
        ELSE <<SubSeq(chars, 1, Least(breaks) - 1)>>
             \o SplitLines(SubSeq(chars, Least(breaks) + 1, Len(chars)))

StartsWith(line, prefix) == Len(line) >= Len(prefix) /\ SubSeq(line, 1, Len(prefix)) = prefix

\* an amount with exactly two fractional digits, rounded half-up
TwoDecimals(amount) ==
    LET mag   == Abs(amount.coef)
        unit  == Pow10(-(amount.exp + 2))
        cents == IF amount.exp >= -2 THEN mag * Pow10(amount.exp + 2)
                 ELSE (2 * mag + unit) \div (2 * unit)
    IN  (IF amount.coef < 0 THEN <<"-">> ELSE <<>>)
        \o NatChars(cents \div 100) \o <<".">>
        \o <<DigitChar((cents \div 10) % 10), DigitChar(cents % 10)>>

\* C18: a generated MT103 has its lines in the fixed order {1:...}, {2:...},
\* {4:, :20:, :23B:CRED, :32A:, :50K:, :59:, then :70: exactly when the
\* remittance text is not empty (its newlines replaced by spaces), then
\* :71A:SHA, then -}; each tag starts exactly one line, and the amount of
\* :32A: has two fractional digits, rounded half-up
C18_FieldsInFixedOrder ==
    mt_text.origin = "generated" =>
        LET lines  == SplitLines(mt_text.text)
            remit  == payment.remittance_info
            tags   == <<Tag20, Tag23B, Tag32A, Tag50K, Tag59>>
                      \o (IF remit # <<>> THEN <<Tag70>> ELSE <<>>) \o <<Tag71A>>
            n      == Len(tags)
            Starts(tag) == {i \in 1..Len(lines) : StartsWith(lines[i], tag)}
        IN  /\ Len(lines) = n + 4
            /\ lines[1] = Block1 /\ lines[2] = Block2 /\ lines[3] = Block4
            /\ \A i \in 1..n : Starts(tags[i]) = {i + 3}
            /\ remit = <<>> => Starts(Tag70) = {}
            /\ lines[5] = Tag23B \o <<"C", "R", "E", "D">>
            /\ remit # <<>> =>
                   lines[n + 2] = Tag70 \o [i \in 1..Len(remit) |->
                                               IF remit[i] = "\n" THEN " " ELSE remit[i]]
            /\ lines[n + 3] = Tag71A \o <<"S", "H", "A">>
            /\ lines[n + 4] = BlockEnd
            /\ Len(lines[6]) > 14
            /\ SubSeq(lines[6], 15, Len(lines[6])) = TwoDecimals(payment.amount)

\* YYMMDD of an ISO date YYYY-MM-DD
YYMMDD(iso) == <<iso[3], iso[4], iso[6], iso[7], iso[9], iso[10]>>

\* C19: the text generated for a payment built by the helper, its value date
\* an ISO date, validates as (True, []), and its :32A: field is YYMMDD of the
\* value date, the currency and the two-decimal amount
C19_GeneratedTextValidates ==
    (/\ validation.done
     /\ validation.origin = "generated"
     /\ fromisoformat(payment.value_date).ok) =>
        /\ validation.is_valid
        /\ validation.issues = <<>>
        /\ \E i \in 1..Len(SplitLines(validation.text)) :
               SplitLines(validation.text)[i]
                   = Tag32A \o YYMMDD(payment.value_date) \o payment.currency
                     \o TwoDecimals(payment.amount)

\* a tag occurs in a text
Occurs(text, tag) ==
    \E i \in 1..(Len(text) - Len(tag) + 1) : SubSeq(text, i, i + Len(tag) - 1) = tag

\* the content of the first field of a tag: what follows the tag up to the
\* line break before the next field or before the end of the block, without
\* the white space around it
FieldContent(text, tag) ==
    LET at    == Least({i \in 1..(Len(text) - Len(tag) + 1) :
                           SubSeq(text, i, i + Len(tag) - 1) = tag})
        from  == at + Len(tag)
        stops == {e \in from..(Len(text) - 1) :
                     /\ text[e] = "\n"
                     /\ \/ text[e + 1] = ":"
                        \/ (e + 2 <= Len(text) /\ SubSeq(text, e + 1, e + 2) = BlockEnd)}
        end   == IF stops = {} THEN Len(text) + 1 ELSE Least(stops)
    IN  strip(SubSeq(text, from, end - 1))

\* six digits, three upper-case letters, and a decimal amount with at most
\* two fractional digits
WellFormed32A(content) ==
    LET n      == Len(content)
        points == {i \in 10..n : content[i] = "."}
    IN  /\ n >= 10
        /\ \A i \in 1..6 : IsDigitChar(content[i])
        /\ \A i \in 7..9 : content[i] \in UpperLetters
        /\ Cardinality(points) <= 1
        /\ \A i \in (10..n) \ points : IsDigitChar(content[i])
        /\ \A i \in points : i > 10 /\ n - i \in {1, 2}

\* the issues a text has
ExpectedIssues(text) ==
    {<<"missing", tag>> : tag \in {t \in {Tag20, Tag32A, Tag50K, Tag59, Tag71A} : ~Occurs(text, t)}}
    \cup (IF Occurs(text, Tag32A) /\ ~WellFormed32A(FieldContent(text, Tag32A))
             THEN {<<"format", FieldContent(text, Tag32A)>>} ELSE {})
    \cup {<<"empty", tag>> : tag \in {t \in {Tag50K, Tag59} :
                                        Occurs(text, t) /\ FieldContent(text, t) = <<>>}}

\* C20: validate_mt103_text answers is_valid exactly when it lists no issue,
\* and lists each issue of the text once: a missing one for each absent
\* required tag, a format one for a malformed :32A:, an empty one for each of
\* :50K: and :59: that is present and empty
C20_AllIssuesReported ==
    validation.done =>
        /\ validation.is_valid = (validation.issues = <<>>)
        /\ {validation.issues[i] : i \in 1..Len(validation.issues)} = ExpectedIssues(validation.text)
        /\ Len(validation.issues) = Cardinality(ExpectedIssues(validation.text))

RECURSIVE SignedSum(_)
\* the signed sum of a log: deposits, interest credits and incoming
\* transfers count up, withdrawals and outgoing transfers count down
SignedSum(log) ==
    IF log = <<>> THEN 0
    ELSE LET t == log[Len(log)]
             s == IF t.transaction_type \in {"DEPOSIT", "INTEREST_CREDIT"} THEN t.amount
                  ELSE IF t.transaction_type = "WITHDRAWAL" THEN -t.amount
                  ELSE IF t.description[1] = "Transfer from" THEN t.amount
                  ELSE -t.amount
         IN  SignedSum(SubSeq(log, 1, Len(log) - 1)) + s

\* C24: in every reachable state the balance of each account is the signed
\* sum of its own transaction log
C24_BalanceIsSumOfLog ==
    \A a \in DOMAIN accounts :
        accounts[a].balance
            = SignedSum(IF a \in DOMAIN transactions THEN transactions[a] ELSE <<>>)

\* the error kinds the ledger defines: not found, validation error,
\* insufficient funds
ErrorKinds == {"AccountNotFoundError", "ValueError", "InsufficientFundsError"}

\* C23: the error surface is closed: every call on the ledger returns its
\* result or fails with one of the defined error kinds, and a failing call
\* leaves the store unchanged; register_customer with a required field
\* missing fails with the validation error, and so do deposit, withdraw and
\* transfer on existing accounts with a non-positive amount
C23_ErrorSurfaceClosed ==
    (last.op \in {"register_customer", "create_account", "deposit", "withdraw", "transfer",
                  "apply_for_loan"}) =>
        /\ last.result \in {"ok"} \cup ErrorKinds
        /\ last.result # "ok" => LedgerUntouched /\ loans = last.pre_loans
        /\ (last.op = "register_customer" /\ last.result # "ok") => last.result = "ValueError"
        /\ (/\ last.op \in {"deposit", "withdraw", "transfer"}
            /\ last.amount <= 0
            /\ last.account \in DOMAIN PreAccounts
            /\ last.op = "transfer" => last.to \in DOMAIN PreAccounts) =>
               last.result = "ValueError"

\* the child of an element with a tag
Child(e, tag) == e.children[CHOOSE i \in 1..Len(e.children) : e.children[i].tag = tag]

\* the InstdAmt element of a pain.001 tree
InstdAmtOf(tree) == Child(Child(Child(Child(tree, "PmtInf"), "CdtTrfTxInf"), "Amt"), "InstdAmt")

\* C21: the bundled minimal XSD covers every element generate_pain001 emits:
\* where xmlschema is installed, the document generated for any payment, with
\* or without a beneficiary BIC and with or without remittance text, validates
\* against the bundled schema with (True, None), and its InstdAmt carries the
\* payment's currency in Ccy and the amount with two decimals as its text
C21_GeneratedDocumentValidates ==
    (/\ pain_validation.done
     /\ pain_validation.origin = "generated"
     /\ pain_validation.schema_path = MINIMAL_XSD_PATH
     /\ HAS_XMLSCHEMA) =>
        /\ pain_validation.raised = ""
        /\ pain_validation.is_valid
        /\ pain_validation.none
        /\ InstdAmtOf(fromstring(pain_validation.xml)).attrs = [Ccy |-> payment.currency]
        /\ InstdAmtOf(fromstring(pain_validation.xml)).text = TwoDecimals(payment.amount)

\* C22: for a well-formed document validate_pain001_generated fails with
\* SchemaNotFoundError whenever the schema path is empty or names no file or
\* xmlschema is not installed, and so never returns (False, issues) then; for
\* a document that is not well-formed it returns (False, [issue]) with the one
\* parse error, whatever the schema path
C22_SchemaNotFoundIsDistinct ==
    pain_validation.done =>
        IF WellFormed(pain_validation.xml)
           THEN (\/ pain_validation.schema_path = ""
                 \/ pain_validation.schema_path \notin DOMAIN SchemaFiles
                 \/ ~HAS_XMLSCHEMA) =>
                    pain_validation.raised = "SchemaNotFoundError"
           ELSE /\ pain_validation.raised = ""
                /\ ~pain_validation.is_valid
                /\ ~pain_validation.none
                /\ pain_validation.errors = <<(<<"XML not well-formed">>)>>

====
